---- MODULE Spec2Model ----
(***************************************************************************)
(* Model of lakesuperior's LMDB-backed quad store (LmdbStore), its key     *)
(* sequence (LexicalSequence) and its scoped transactions (TxnManager).    *)
(*                                                                         *)
(* A term key is a sequence of KEY_LENGTH bytes, a compound key is term    *)
(* keys joined by SEP_BYTE.  A table is the set of its <<key, value>>      *)
(* pairs (a dupsort table may hold several values per key).  The data      *)
(* environment holds t:st, spo:c, c: and pfx:ns; the index environment     *)
(* holds th:t, s:po, p:so, o:sp, c:spo and ns:pfx.                         *)
(***************************************************************************)
EXTENDS Integers, Sequences, FiniteSets, TLC

\* ------------------------------------------------------------- bounds ----
\* Number of store calls (add, remove, add_graph, remove_graph, bind) in a run.
MaxOps == 3
\* Depth of nested TxnManager scopes.
MaxDepth == 2
\* The changes written by resource operations in one behaviour.
MaxChanges == 3
\* The version uids drawn in one behaviour.
MaxVersions == 2
\* The readings of the clock.
MaxTime == 2
\* Calls of next() on one sequence, each on the key the call before gave.
MaxCalls == 2

\* ---------------------------------------------------- program constants --
KEY_LENGTH == 5
KEY_START == 2
SEP_BYTE == 0
\* Largest value of an element of a bytearray.
BYTE_MAX == 255

\* Python's None.
None == "None"
RDFLIB_DEFAULT_GRAPH_URI == "urn:x-rdflib:default"

\* ------------------------------------------------------------- inputs ----
\* RDF terms.  "z" stands for a term Python evaluates as false (Literal(0),
\* Literal(''), URIRef('')); the others are non-empty URIRefs.
Terms == {"a", "b", "z"}
FalsyTerms == {"z"}
\* Named graphs; "a" is also used as a term of triples.
GraphNames == {"g", "a"}
AllTerms == Terms \cup GraphNames \cup {RDFLIB_DEFAULT_GRAPH_URI}
\* A Graph object (rdflib.Graph) given where a context is expected, and its
\* identifier.
GraphObjs == {"Graph(g)"}
IsGraph(x) == x \in GraphObjs
identifier(gr) == CASE gr = "Graph(g)" -> "g"

\* bool(x) of Python for the values used here.
Truthy(x) == x # None /\ x \notin FalsyTerms
all(trp) == \A i \in 1..3 : Truthy(trp[i])
any(trp) == \E i \in 1..3 : Truthy(trp[i])

\* ------------------------------------------------- LexicalSequence -------
first == [i \in 1..KEY_LENGTH |-> KEY_START]

\* No key: None, or the empty byte string (both are false in Python).
NoKey == <<>>
\* What next() yields here when it raises RuntimeError (sequence exhausted).
Exhausted == <<>>

\* The loop of next() from position i (1-based) down to the first byte.
RECURSIVE next_loop(_, _)
next_loop(n, i) ==
    IF n[i] + 1 <= BYTE_MAX
    THEN [n EXCEPT ![i] = n[i] + 1]
    ELSE IF i = 1
         THEN Exhausted
         ELSE next_loop([n EXCEPT ![i] = KEY_START], i - 1)

next_nocarry(n) ==
    LET k == IF n = NoKey THEN first ELSE n
    IN  IF k[KEY_LENGTH] + 1 <= BYTE_MAX
        THEN [k EXCEPT ![KEY_LENGTH] = k[KEY_LENGTH] + 1]
        ELSE [k EXCEPT ![KEY_LENGTH] = SEP_BYTE]
next(n) == next_loop(IF n = NoKey THEN first ELSE n, KEY_LENGTH)

\* Lexicographic byte order, the order of keys in an LMDB table.
RECURSIVE LexLess(_, _)
LexLess(x, y) ==
    IF x = <<>> THEN y # <<>>
    ELSE IF y = <<>> THEN FALSE
    ELSE IF Head(x) # Head(y) THEN Head(x) < Head(y)
    ELSE LexLess(Tail(x), Tail(y))

\* ----------------------------------------------------- serialisation -----
_pickle(t) == <<"pk", t>>
\* pickle.loads(None), of a key that t:st does not hold, raises TypeError: the
\* term is then read as Unpicklable.
Unpicklable == "TypeError: a bytes-like object is required"
_unpickle(pk) == IF pk = <<>> THEN Unpicklable ELSE pk[2]
_hash(pk) == <<"sha1", pk>>

\* SEP_BYTE.join(keys)
RECURSIVE join(_)
join(keys) ==
    IF Len(keys) = 0 THEN <<>>
    ELSE IF Len(keys) = 1 THEN keys[1]
    ELSE keys[1] \o <<SEP_BYTE>> \o join(Tail(keys))

\* bytes(key).split(SEP_BYTE)
RECURSIVE split_from(_, _)
split_from(bs, acc) ==
    IF bs = <<>> THEN <<acc>>
    ELSE IF Head(bs) = SEP_BYTE THEN <<acc>> \o split_from(Tail(bs), <<>>)
    ELSE split_from(Tail(bs), Append(acc, Head(bs)))

split(bs) == split_from(bs, <<>>)

\* ------------------------------------------------------------ tables -----
\* Values stored under key k of a table.
Dups(tbl, k) == {e[2] : e \in {x \in tbl : x[1] = k}}
\* cursor.set_key(k)
HasKey(tbl, k) == \E e \in tbl : e[1] = k
\* cursor.put on a table without duplicates: the value of k is replaced.
Put(tbl, k, val) == {e \in tbl : e[1] # k} \cup {<<k, val>>}
\* cursor.put on a dupsort table: the pair is added unless it is there.
PutDup(tbl, k, val) == tbl \cup {<<k, val>>}
\* cursor.get(k) on a table without duplicates; NoKey (None) when k is absent.
Get(tbl, k) ==
    IF HasKey(tbl, k) THEN CHOOSE val \in Dups(tbl, k) : TRUE ELSE NoKey

\* An empty store: the tables of the data and of the index environment.
EmptyData == [tst |-> {}, spoc |-> {}, c |-> {}, pfxns |-> {}]
EmptyIdx == [tht |-> {}, spo |-> {}, pso |-> {}, osp |-> {}, cspo |-> {},
             nspfx |-> {}]
\* What an operation sees: the tables of both transactions.
View(d, i) ==
    [tst |-> d.tst, spoc |-> d.spoc, c |-> d.c, pfxns |-> d.pfxns,
     tht |-> i.tht, spo |-> i.spo, pso |-> i.pso, osp |-> i.osp,
     cspo |-> i.cspo, nspfx |-> i.nspfx]
DataOf(v) == [tst |-> v.tst, spoc |-> v.spoc, c |-> v.c, pfxns |-> v.pfxns]
IdxOf(v) == [tht |-> v.tht, spo |-> v.spo, pso |-> v.pso, osp |-> v.osp,
             cspo |-> v.cspo, nspfx |-> v.nspfx]

\* ------------------------------------------------------ LmdbStore --------
_lookup_rank == <<"s", "o", "p">>
spo_labels == <<"s", "p", "o">>
\* _lookup_ordering, with positions counted from 1.
_lookup_ordering(label) ==
    CASE label = "s" -> <<1, 2, 3>>
      [] label = "p" -> <<2, 1, 3>>
      [] label = "o" -> <<3, 1, 2>>
\* The lookup table named label + ':' + the two other labels.
LookupTable(v, label) ==
    CASE label = "s" -> v.spo
      [] label = "p" -> v.pso
      [] label = "o" -> v.osp

_normalize_context(context) ==
    IF IsGraph(context) THEN identifier(context) ELSE context

\* cur.last() and cur.key() on t:st: the greatest key, NoKey if the table is
\* empty.
LastKey(tst) ==
    IF tst = {} THEN NoKey
    ELSE CHOOSE k \in {e[1] : e \in tst} :
             \A k2 \in {e[1] : e \in tst} : k2 = k \/ LexLess(k2, k)

\* _append(cur, (value,)) on t:st: the value is stored under the key after the
\* last one.  Yields the new table and the key.
_append(tst, val) ==
    LET lastkey == next(LastKey(tst))
    IN  IF lastkey = Exhausted
        THEN [tst |-> tst, key |-> NoKey, err |-> "RuntimeError"]
        ELSE [tst |-> Put(tst, lastkey, val), key |-> lastkey, err |-> None]

\* _to_key(obj), obj being a sequence of terms: the joined keys of the terms,
\* NoKey (None) as soon as one of them is not in th:t.
_to_key(v, terms) ==
    IF \E j \in 1..Len(terms) : Get(v.tht, _hash(_pickle(terms[j]))) = NoKey
    THEN NoKey
    ELSE join([j \in 1..Len(terms) |-> Get(v.tht, _hash(_pickle(terms[j])))])

\* _from_key(key): the terms of a (compound) key.
_from_key(v, key) ==
    LET ks == split(key)
    IN  [j \in 1..Len(ks) |-> _unpickle(Get(v.tst, ks[j]))]

\* _index_triple(action, spok)
_index_triple(v, action, spok) ==
    LET triple == split(spok)
        sk == triple[1]
        pk == triple[2]
        ok == triple[3]
        spk == join(<<sk, pk>>)
        sok == sk \o <<SEP_BYTE>> \o ok
        pok == join(<<pk, ok>>)
    IN  IF action = "remove"
        THEN [v EXCEPT !.spo = @ \ {<<sk, pok>>},
                       !.pso = @ \ {<<pk, sok>>},
                       !.osp = @ \ {<<ok, spk>>}]
        ELSE [v EXCEPT !.spo = PutDup(@, sk, pok),
                       !.pso = PutDup(@, pk, sok),
                       !.osp = PutDup(@, ok, spk)]

\* The loop of add() over (pk_s, pk_p, pk_o, pk_c): the key of each term, a
\* new one being appended to t:st and indexed in th:t when the hash is unknown.
RECURSIVE InternTerms(_, _, _)
InternTerms(v, pks, keys) ==
    IF Len(keys) = Len(pks) THEN [v |-> v, keys |-> keys, err |-> None]
    ELSE LET pk_t == pks[Len(keys) + 1]
             thash == _hash(pk_t)
         IN  IF HasKey(v.tht, thash)
             THEN InternTerms(v, pks, Append(keys, Get(v.tht, thash)))
             ELSE LET app == _append(v.tst, pk_t)
                  IN  IF app.err # None
                      THEN [v |-> v, keys |-> keys, err |-> app.err]
                      ELSE InternTerms(
                               [v EXCEPT !.tst = app.tst,
                                         !.tht = Put(@, thash, app.key)],
                               pks, Append(keys, app.key))

\* add(triple, context) in a read-write transaction.
add(v, triple, context) ==
    LET ctx0 == _normalize_context(context)
        ctx == IF ctx0 = None THEN RDFLIB_DEFAULT_GRAPH_URI ELSE ctx0
        pks == <<_pickle(triple[1]), _pickle(triple[2]), _pickle(triple[3]),
                 _pickle(ctx)>>
        it == InternTerms(v, pks, <<>>)
    IN  IF it.err # None THEN [v |-> it.v, err |-> it.err]
        ELSE LET ck == it.keys[4]
                 spok == join(SubSeq(it.keys, 1, 3))
                 v1 == [it.v EXCEPT
                          !.c = IF ck \in @ THEN @ ELSE @ \cup {ck},
                          !.spoc = IF <<spok, ck>> \in @ THEN @
                                   ELSE PutDup(@, spok, ck),
                          !.cspo = PutDup(@, ck, spok)]
             IN  [v |-> _index_triple(v1, "add", spok), err |-> None]

\* Result of a lookup: the error raised, if any, and the triple keys yielded.
Found(keys) == [err |-> None, keys |-> keys]
Raised(e) == [err |-> e, keys |-> {}]

\* 'spo'.replace(label, '')
v_label_of(label) == SelectSeq(spo_labels, LAMBDA l : l # label)
\* str.index, counted from 0 as in Python.
index_of(labels, label) ==
    (CHOOSE j \in 1..Len(labels) : labels[j] = label) - 1

\* The triple key composed in the lookups: out = [None, None, None] and
\* three assignments out[pos] = val, made in the order given.
Compose(assignments) ==
    join([j \in 1..3 |->
        IF assignments[3][1] = j THEN assignments[3][2]
        ELSE IF assignments[2][1] = j THEN assignments[2][2]
        ELSE IF assignments[1][1] = j THEN assignments[1][2]
        ELSE NoKey])

\* _lookup_1bound(label, term)
_lookup_1bound(v, label, term) ==
    LET k == _to_key(v, <<term>>)
        term_order == _lookup_ordering(label)
    IN  IF k = NoKey THEN Found({})
        ELSE Found({ LET subkeys == split(match)
                     IN  Compose(<< <<term_order[1], k>>,
                                    <<term_order[2], subkeys[1]>>,
                                    <<term_order[3], subkeys[2]>> >>)
                     : match \in Dups(LookupTable(v, label), k) })

\* _lookup_2bound(bound_terms); bound_terms maps two labels to terms.
_lookup_2bound(v, bound_terms) ==
    LET ranked == SelectSeq(_lookup_rank, LAMBDA l : l \in DOMAIN bound_terms)
        \* First match is the lookup term, second match is the filter.
        k_label == ranked[1]
        f_label == ranked[2]
        v_label == v_label_of(k_label)
        term_order == _lookup_ordering(k_label)
        luk == _to_key(v, <<bound_terms[k_label]>>)
        fpos == index_of(v_label, f_label)
        ft == _to_key(v, <<bound_terms[f_label]>>)
    IN  IF luk = NoKey \/ ft = NoKey THEN Found({})
        ELSE Found({ LET subkeys == split(match)
                         flt_subkey == subkeys[fpos + 1]
                         r_subkey == subkeys[(1 - fpos) + 1]
                     IN  Compose(<< <<term_order[1], luk>>,
                                    <<term_order[(fpos + 1) + 1], flt_subkey>>,
                                    <<term_order[(2 - fpos) + 1], r_subkey>> >>)
                     : match \in { m \in Dups(LookupTable(v, k_label), luk) :
                                     split(m)[fpos + 1] = ft } })

\* _lookup(triple_pattern)
_lookup(v, triple_pattern) ==
    LET s == triple_pattern[1]
        p == triple_pattern[2]
        o == triple_pattern[3]
    IN  IF s # None
        THEN IF p # None
             THEN IF o # None
                  THEN LET tkey == _to_key(v, triple_pattern)
                       IN  \* cur.set_key(None) raises TypeError
                           IF tkey = NoKey THEN Raised("TypeError")
                           ELSE IF HasKey(v.spoc, tkey) THEN Found({tkey})
                           ELSE Found({})
                  ELSE _lookup_2bound(v, [l \in {"s", "p"} |->
                                            IF l = "s" THEN s ELSE p])
             ELSE IF o # None
                  THEN _lookup_2bound(v, [l \in {"s", "o"} |->
                                            IF l = "s" THEN s ELSE o])
                  ELSE _lookup_1bound(v, "s", s)
        ELSE IF p # None
             THEN IF o # None
                  THEN _lookup_2bound(v, [l \in {"p", "o"} |->
                                            IF l = "p" THEN p ELSE o])
                  ELSE _lookup_1bound(v, "p", p)
             ELSE IF o # None
                  THEN _lookup_1bound(v, "o", o)
                  ELSE Found({e[1] : e \in v.spoc})

\* _triple_keys(triple_pattern, context), context being None or a term.
_triple_keys(v, triple_pattern, context) ==
    IF context # None
    THEN LET ck == _to_key(v, <<context>>)
         IN  IF ck = NoKey THEN Found({})
             ELSE IF all(triple_pattern)
             THEN LET spok == _to_key(v, triple_pattern)
                  IN  IF spok = NoKey THEN Found({})
                      ELSE IF <<ck, spok>> \in v.cspo THEN Found({spok})
                      ELSE Found({})
             ELSE IF ~any(triple_pattern)
             THEN Found(Dups(v.cspo, ck))
             ELSE LET lu == _lookup(v, triple_pattern)
                  IN  [lu EXCEPT !.keys = {spok \in @ : <<ck, spok>> \in v.cspo}]
    ELSE _lookup(v, triple_pattern)

\* triples(triple_pattern, context): the error raised, if any, and the set of
\* triples yielded (the contexts yielded along with them are left out).
triples(v, triple_pattern, context) ==
    LET ctx0 == _normalize_context(context)
        ctx == IF ctx0 = RDFLIB_DEFAULT_GRAPH_URI THEN None ELSE ctx0
        tk == _triple_keys(v, triple_pattern, ctx)
        res == {_from_key(v, spok) : spok \in tk.keys}
        decoded == {t \in res : \A j \in 1..Len(t) : t[j] # Unpicklable}
    IN  [err |-> IF tk.err = None /\ decoded # res THEN "TypeError" ELSE tk.err,
         res |-> decoded]

\* contexts(triple): the identifiers of the graphs yielded.
contexts(v, triple) ==
    IF triple # <<>> /\ any(triple)
    THEN LET key == _to_key(v, triple)
         IN  IF key = NoKey THEN [err |-> "TypeError", res |-> {}]
             ELSE [err |-> None,
                   res |-> {_from_key(v, ck)[1] : ck \in Dups(v.spoc, key)}]
    ELSE [err |-> None, res |-> {_from_key(v, ck)[1] : ck \in v.c}]

\* __len__(context)
__len__(v, context) ==
    LET ctx == _normalize_context(context)
    IN  IF ctx # None
        THEN IF _to_key(v, <<ctx>>) = NoKey
             THEN [err |-> "TypeError", res |-> 0]
             ELSE [err |-> None,
                   res |-> Cardinality(Dups(v.cspo, _to_key(v, <<ctx>>)))]
        ELSE [err |-> None, res |-> Cardinality(v.spoc)]

\* One pass of the loop of remove() with ck set: the association of spok with
\* ck is deleted from spo:c and c:spo, then the lookups of spok are removed.
RemoveInContext_main(v, spok, ck) ==
    _index_triple([v EXCEPT !.spoc = @ \ {<<spok, ck>>}], "remove", spok)
RemoveInContext(v, spok, ck) ==
    LET v1 == IF <<spok, ck>> \in v.spoc
              THEN [v EXCEPT !.spoc = @ \ {<<spok, ck>>},
                             !.cspo = @ \ {<<ck, spok>>}]
              ELSE v
    IN  _index_triple(v1, "remove", spok)

\* One pass of the loop of remove() with ck unset: every association of spok
\* is deleted from c:spo, then from spo:c, then the lookups are removed.
RemoveAllContexts(v, spok) ==
    LET v1 == IF HasKey(v.spoc, spok)
              THEN [v EXCEPT
                      !.cspo = @ \ {<<ck, spok>> : ck \in Dups(v.spoc, spok)},
                      !.spoc = {e \in @ : e[1] # spok}]
              ELSE v
    IN  _index_triple(v1, "remove", spok)

\* Bytes that are the key of no term, and a compound key made of them.
StaleBytes == [j \in 1..KEY_LENGTH |-> 1]
StaleTriple == join(<<StaleBytes, StaleBytes, StaleBytes>>)

\* The data transaction is opened with buffers=True: a key or value read from
\* it is a view of the page, valid until the transaction next writes.  remove()
\* keeps two of them across its deletions:
\*  - `for ck in dcur.iternext_dup()` rebinds ck to the last context key
\*    iterated (leak), which the next passes use as the context to remove from;
\*  - the triple keys of an unbound pattern without context, which come from
\*    spo:c itself.
\* Such a view reads as the bytes it was taken from as long as the page is
\* intact, and as any other bytes once the page has been rewritten.
LeakedReadings(v, leak) == {leak} \cup {e[2] : e \in v.spoc} \cup {StaleBytes}
StaleReadings(v, spok) == {spok} \cup {e[1] : e \in v.spoc} \cup {StaleTriple}

\* The last value of dcur.iternext_dup() under spok.
LastDup(v, spok) ==
    CHOOSE ck \in Dups(v.spoc, spok) :
        \A ck2 \in Dups(v.spoc, spok) : ck2 = ck \/ LexLess(ck2, ck)

\* The loop of remove() over set(_triple_keys(...)), whose order is that of a
\* Python set: the outcomes it can have, each the tables it leaves and the
\* error raised, if any.  ck is the context key, NoKey when no context was
\* given; leak is NoKey until ck has been rebound; views tells that the triple
\* keys are views of pages of spo:c.
RECURSIVE RemoveLoop(_, _, _, _, _)
RemoveLoop(v, todo, ck, leak, views) ==
    IF todo = {} THEN {[v |-> v, err |-> None]}
    ELSE UNION {
        IF ck # NoKey
        THEN RemoveLoop(RemoveInContext(v, spok, ck), todo \ {spok}, ck, leak,
                        views)
        ELSE IF leak # NoKey
        THEN UNION { RemoveLoop(RemoveInContext(v, read, r), todo \ {spok},
                                ck, leak, views)
                     : read \in (IF views THEN StaleReadings(v, spok)
                                 ELSE {spok}),
                       r \in LeakedReadings(v, leak) }
             \* sk, pk, ok = triple: ValueError unless the bytes split in three
             \cup (IF views THEN {[v |-> v, err |-> "ValueError"]} ELSE {})
        ELSE RemoveLoop(RemoveAllContexts(v, spok), todo \ {spok}, ck,
                        IF HasKey(v.spoc, spok) THEN LastDup(v, spok)
                        ELSE NoKey, views)
        : spok \in todo }

\* Whether a pass of the loop of remove() calls put or delete on a cursor.
RemoveWrites(v, spok, ck) ==
    IF ck # NoKey THEN RemoveInContext(v, spok, ck) # v
    ELSE RemoveAllContexts(v, spok) # v

\* remove(triple_pattern, context): the outcomes it can have.  In a read-only
\* transaction (~rw) the first put or delete raises lmdb.ReadonlyError.
remove(v, rw, triple_pattern, context) ==
    LET ctx == _normalize_context(context)
        ck == IF ctx # None THEN _to_key(v, <<ctx>>) ELSE NoKey
        tk == _triple_keys(v, triple_pattern, ctx)
    IN  IF ctx # None /\ ck = NoKey THEN {[v |-> v, err |-> None]}
        ELSE IF tk.err # None THEN {[v |-> v, err |-> tk.err]}
        ELSE IF ~rw
        THEN {[v |-> v,
               err |-> IF \E spok \in tk.keys : RemoveWrites(v, spok, ck)
                       THEN "ReadonlyError" ELSE None]}
        ELSE RemoveLoop(v, tk.keys, ck, NoKey,
                        ctx = None /\ triple_pattern = <<None, None, None>>)

\* remove_graph(graph)
remove_graph_triples(v, rw, graph) ==
    LET gr == IF IsGraph(graph) THEN identifier(graph) ELSE graph
    IN  remove(v, rw, <<None, None, None>>, gr)
remove_graph(v, rw, graph) ==
    LET gr == IF IsGraph(graph) THEN identifier(graph) ELSE graph
        key == _to_key(v, <<gr>>)
    IN  { IF r.err # None THEN r
          \* cur.set_key(None) raises TypeError
          ELSE IF key = NoKey THEN [v |-> r.v, err |-> "TypeError"]
          ELSE IF key \notin r.v.c THEN r
          ELSE IF ~rw THEN [v |-> r.v, err |-> "ReadonlyError"]
          ELSE [v |-> [r.v EXCEPT !.c = @ \ {key}], err |-> None]
          : r \in remove(v, rw, <<None, None, None>>, gr) }

\* add_graph(graph), v being the tables the active transaction sees and env
\* the committed tables of the two environments.  With is_txn_rw set the graph
\* is written in the active transaction, otherwise in two transactions of its
\* own, which are committed at once.
add_graph(v, env, txn_rw, graph) ==
    LET gr == IF IsGraph(graph) THEN identifier(graph) ELSE graph
        pk_c == _pickle(gr)
        c_hash == _hash(pk_c)
        c_exists == HasKey(v.tht, c_hash)
        tbl == IF txn_rw THEN v ELSE env
        app == _append(tbl.tst, pk_c)
        written == [tbl EXCEPT !.tst = app.tst,
                               !.tht = Put(@, c_hash, app.key),
                               !.c = @ \cup {app.key}]
    IN  IF c_exists THEN [v |-> v, env |-> env, err |-> None]
        ELSE IF app.err # None THEN [v |-> v, env |-> env, err |-> app.err]
        ELSE IF txn_rw THEN [v |-> written, env |-> env, err |-> None]
        ELSE [v |-> v, env |-> written, err |-> None]

\* s2b / b2s: a string and its UTF-8 bytes.
s2b(u) == <<"utf8", u>>
b2s(b) == b[2]

\* bind(prefix, namespace), written like add_graph in the active transaction
\* or in transactions of its own.
bind(v, env, txn_rw, pfx, ns) ==
    LET tbl == IF txn_rw THEN v ELSE env
        written == [tbl EXCEPT !.pfxns = Put(@, s2b(pfx), s2b(ns)),
                               !.nspfx = Put(@, s2b(ns), s2b(pfx))]
    IN  IF txn_rw THEN [v |-> written, env |-> env, err |-> None]
        ELSE [v |-> v, env |-> written, err |-> None]

\* namespace(prefix) and prefix(namespace); None when there is no binding.
namespace(v, pfx) ==
    IF HasKey(v.pfxns, s2b(pfx)) THEN b2s(Get(v.pfxns, s2b(pfx))) ELSE None
prefix(v, ns) ==
    IF HasKey(v.nspfx, s2b(ns)) THEN b2s(Get(v.nspfx, s2b(ns))) ELSE None

\* --------------------------------------------------------- the state ----
VARIABLES
    data_env,   \* committed tables of the data environment
    idx_env,    \* committed tables of the index environment
    data_txn,   \* LmdbStore.data_txn: state, mode and tables of the transaction
    idx_txn,    \* LmdbStore.idx_txn
    is_txn_rw,  \* LmdbStore.is_txn_rw: "None", "True" or "False"
    scopes,     \* the TxnManager scopes entered and not yet left, outermost first
    last,       \* the last call made and the exception it raised, if any
    nops,       \* number of store calls made so far
    req,        \* the request an LDP resource operation runs in
    repo,       \* the dataset the resource layer reads and writes
    seq         \* a LexicalSequence in use: the key given, the calls, the result

\* The state of the resource layer and of a sequence used on its own, which
\* no call on the store changes.
ldp_vars == <<req, repo, seq>>
vars == <<data_env, idx_env, data_txn, idx_txn, is_txn_rw, scopes, last, nops,
          req, repo, seq>>

\* Inputs of the calls.
AddTriples == {<<"a", "a", "b">>, <<"a", "b", "b">>, <<"b", "a", "b">>,
               <<"a", "a", "z">>}
ContextArgs == {None, RDFLIB_DEFAULT_GRAPH_URI} \cup GraphNames \cup GraphObjs
RemovePatterns == {<<None, None, None>>, <<"a", None, None>>,
                   <<None, "a", None>>, <<None, None, "b">>,
                   <<"a", "a", None>>, <<"a", None, "b">>, <<None, "a", "b">>,
                   <<"a", "a", "b">>, <<None, None, "z">>, <<"b", "b", "b">>}

\* A transaction that was never begun (None), and one that is finished.
NoTxn(db) == [st |-> "none", write |-> FALSE, db |-> db]
Finished(txn, db) == [st |-> "done", write |-> txn.write, db |-> db]

Call(op, trp, ctx, err) == [op |-> op, trp |-> trp, ctx |-> ctx, err |-> err]

\* What the cursors of the active transaction read.
TxnView == View(data_txn.db, idx_txn.db)
\* What a transaction begun now would read.
EnvView == View(data_env, idx_env)

\* The exception of self.cur(...): AttributeError when no transaction was ever
\* begun, lmdb.Error when the transaction is finished.
CursorError ==
    IF idx_txn.st = "none" \/ data_txn.st = "none" THEN "AttributeError"
    ELSE IF idx_txn.st = "done" \/ data_txn.st = "done" THEN "Error"
    ELSE None

\* The quads (triple, graph identifier) stored in tables v.
StoredQuads(v) == {<<_from_key(v, e[1]), _from_key(v, e[2])[1]>> : e \in v.spoc}

Top == scopes[Len(scopes)]

\* No request yet.  changelog is request.changelog, sent the records handed
\* to _send_event_msg in order, store the changes committed, txn the changes
\* written and not committed, next the next change, exc whether an exception
\* is propagating, entry the store and the records sent when the outermost
\* operation was called.
NoRequest ==
    [stack |-> <<>>, changelog |-> <<>>, sent |-> <<>>, store |-> {},
     txn |-> {}, next |-> 1, exc |-> FALSE, messaging |-> FALSE,
     result |-> "none", entry |-> [store |-> {}, sent |-> <<>>]]

\* The resources of the repository besides the root node, whose uid is ''.
ROOT_UID == ""
Uids == {"a", "b"}
\* A repository holding the root node only; nver counts the version uids
\* drawn so far, prior[uid] is the graph uid had when it was last deleted and
\* call is the last operation on a resource and its outcome.
Bootstrapped ==
    [ds |-> {<<ROOT_UID, "rdf:type", "ldp:BasicContainer">>},
     nver |-> 0,
     now |-> 0,
     prior |-> [u \in Uids |-> {}],
     sent |-> [uid |-> ROOT_UID, gr |-> {}],
     got |-> [gr |-> {}, incl_children |-> TRUE, incl_srv_mgd |-> TRUE],
     call |-> [op |-> "none", uid |-> ROOT_UID, err |-> None, ret |-> None]]

\* A sequence that was given key n and not asked anything yet.
Sequence(n) == [n |-> n, calls |-> 0, out |-> NoKey, err |-> None]

InitStore ==
    /\ data_env = EmptyData
    /\ idx_env = EmptyIdx
    /\ data_txn = NoTxn(EmptyData)
    /\ idx_txn = NoTxn(EmptyIdx)
    /\ is_txn_rw = None
    /\ scopes = <<>>
    /\ last = Call("open", <<>>, None, None)
    /\ nops = 0
    /\ req = NoRequest
    /\ repo = Bootstrapped

Init == InitStore /\ seq = Sequence(NoKey)

\* ------------------------------------------------------- TxnManager ------
\* begin(write): both attributes are rebound to new transactions.  A write
\* transaction they held is no longer referenced and is aborted.
begin(write) ==
    /\ data_txn' = [st |-> "open", write |-> write, db |-> data_env]
    /\ idx_txn' = [st |-> "open", write |-> write, db |-> idx_env]
    /\ is_txn_rw' = IF write THEN "True" ELSE "False"

\* A variant of Writable in which the mode asked of begin() is ignored and
\* every transaction accepts writes.
Writable_any(txn) == TRUE

\* Whether the cursors of a transaction accept put and delete: begin(write)
\* opens it with write=write, and a cursor of a read-only transaction raises
\* lmdb.ReadonlyError on either.
Writable(txn) == txn.write

\* commit(): each transaction is committed; the error of committing a missing
\* or finished transaction is swallowed.
commit ==
    /\ data_env' = IF data_txn.st = "open" /\ data_txn.write
                   THEN data_txn.db ELSE data_env
    /\ idx_env' = IF idx_txn.st = "open" /\ idx_txn.write
                  THEN idx_txn.db ELSE idx_env
    /\ data_txn' = IF data_txn.st = "open"
                   THEN Finished(data_txn, EmptyData) ELSE data_txn
    /\ idx_txn' = IF idx_txn.st = "open"
                  THEN Finished(idx_txn, EmptyIdx) ELSE idx_txn
    /\ is_txn_rw' = None

\* rollback(): each transaction is aborted.
rollback ==
    /\ UNCHANGED <<data_env, idx_env>>
    /\ data_txn' = IF data_txn.st = "open"
                   THEN Finished(data_txn, EmptyData) ELSE data_txn
    /\ idx_txn' = IF idx_txn.st = "open"
                  THEN Finished(idx_txn, EmptyIdx) ELSE idx_txn
    /\ is_txn_rw' = None

\* A scope: its mode, whether __enter__ began a transaction, and for the
\* properties the committed tables at its entry and the quads added in it.
Scope(write, began) ==
    [write |-> write, began |-> began,
     entry |-> [d |-> data_env, i |-> idx_env], log |-> {}]

\* TxnManager(store, write).__enter__()
Enter(write) ==
    /\ Len(scopes) < MaxDepth
    /\ IF ~write \/ is_txn_rw # "True"
       THEN begin(write)
       ELSE UNCHANGED <<data_txn, idx_txn, is_txn_rw>>
    /\ scopes' = Append(scopes, Scope(write, ~write \/ is_txn_rw # "True"))
    /\ last' = Call("__enter__", <<>>, None, None)
    /\ UNCHANGED <<data_env, idx_env, nops>>
    /\ UNCHANGED ldp_vars

\* The scopes left once the innermost is exited; the quads it added count as
\* added in the enclosing scope when it ends normally.
Popped(keep_log) ==
    LET rest == SubSeq(scopes, 1, Len(scopes) - 1)
    IN  IF keep_log /\ rest # <<>>
        THEN [rest EXCEPT ![Len(rest)].log = @ \cup Top.log]
        ELSE rest

\* TxnManager.__exit__(None, None, None): the body ended normally.
ExitNormal ==
    /\ scopes # <<>>
    /\ commit
    /\ scopes' = Popped(TRUE)
    /\ last' = Call("__exit__", <<>>, None, None)
    /\ UNCHANGED nops
    /\ UNCHANGED ldp_vars

\* TxnManager.__exit__(exc_type, ...): the body raised.
ExitRaised ==
    /\ scopes # <<>>
    /\ rollback
    /\ scopes' = Popped(FALSE)
    /\ last' = Call("__exit__", <<>>, None, "RuntimeError")
    /\ UNCHANGED nops
    /\ UNCHANGED ldp_vars

\* ------------------------------------------------- calls on the store ----
\* The identifier of the graph a context argument of add() designates.
GraphOf(context) ==
    IF _normalize_context(context) = None THEN RDFLIB_DEFAULT_GRAPH_URI
    ELSE _normalize_context(context)

\* The active transaction with the tables v.
WithTables(txn, db) == [txn EXCEPT !.db = db]

\* The scopes after a call that added the quads `added` and left the tables
\* v2: quads the call deleted, even if it raised after deleting them, are no
\* longer counted as added in any scope.
Logged(added, v2) ==
    [j \in DOMAIN scopes |->
        [scopes[j] EXCEPT !.log =
            ((IF j = Len(scopes) THEN @ \cup added ELSE @)
                \ (StoredQuads(TxnView) \ StoredQuads(v2)))]]

\* store.add(triple, context) in the body of a scope.
Add(triple, context) ==
    /\ scopes # <<>>
    /\ nops < MaxOps
    /\ LET r == IF CursorError # None THEN [v |-> TxnView, err |-> CursorError]
                ELSE IF ~Writable(idx_txn)
                THEN [v |-> TxnView, err |-> "ReadonlyError"]
                ELSE add(TxnView, triple, context)
       IN  /\ data_txn' = WithTables(data_txn, DataOf(r.v))
           /\ idx_txn' = WithTables(idx_txn, IdxOf(r.v))
           /\ scopes' = Logged(IF r.err = None
                               THEN {<<triple, GraphOf(context)>>} ELSE {}, r.v)
           /\ last' = Call("add", triple, context, r.err)
    /\ nops' = nops + 1
    /\ UNCHANGED <<data_env, idx_env, is_txn_rw>>
    /\ UNCHANGED ldp_vars

\* store.remove(triple_pattern, context) in the body of a scope.
Remove(triple_pattern, context) ==
    /\ scopes # <<>>
    /\ nops < MaxOps
    /\ \E r \in (IF CursorError # None
                 THEN {[v |-> TxnView, err |-> CursorError]}
                 ELSE remove(TxnView, Writable(idx_txn), triple_pattern,
                             context)) :
           /\ data_txn' = WithTables(data_txn, DataOf(r.v))
           /\ idx_txn' = WithTables(idx_txn, IdxOf(r.v))
           /\ scopes' = Logged({}, r.v)
           /\ last' = Call("remove", triple_pattern, context, r.err)
    /\ nops' = nops + 1
    /\ UNCHANGED <<data_env, idx_env, is_txn_rw>>
    /\ UNCHANGED ldp_vars

\* store.remove_graph(graph) in the body of a scope.
RemoveGraph(graph) ==
    /\ scopes # <<>>
    /\ nops < MaxOps
    /\ \E r \in (IF CursorError # None
                 THEN {[v |-> TxnView, err |-> CursorError]}
                 ELSE remove_graph(TxnView, Writable(idx_txn), graph)) :
           /\ data_txn' = WithTables(data_txn, DataOf(r.v))
           /\ idx_txn' = WithTables(idx_txn, IdxOf(r.v))
           /\ scopes' = Logged({}, r.v)
           /\ last' = Call("remove_graph", <<>>, graph, r.err)
    /\ nops' = nops + 1
    /\ UNCHANGED <<data_env, idx_env, is_txn_rw>>
    /\ UNCHANGED ldp_vars

\* store.add_graph(graph) in the body of a scope.
AddGraph(graph) ==
    /\ scopes # <<>>
    /\ nops < MaxOps
    /\ LET r == IF CursorError # None
                THEN [v |-> TxnView, env |-> EnvView, err |-> CursorError]
                ELSE add_graph(TxnView, EnvView, is_txn_rw = "True", graph)
       IN  /\ data_txn' = WithTables(data_txn, DataOf(r.v))
           /\ idx_txn' = WithTables(idx_txn, IdxOf(r.v))
           /\ data_env' = DataOf(r.env)
           /\ idx_env' = IdxOf(r.env)
           /\ last' = Call("add_graph", <<>>, graph, r.err)
    /\ nops' = nops + 1
    /\ UNCHANGED <<is_txn_rw, scopes>>
    /\ UNCHANGED ldp_vars

\* store.bind(prefix, namespace) in the body of a scope.
Bind(pfx, ns) ==
    /\ scopes # <<>>
    /\ nops < MaxOps
    /\ LET r == bind(TxnView, EnvView, is_txn_rw = "True", pfx, ns)
       IN  /\ data_txn' = WithTables(data_txn, DataOf(r.v))
           /\ idx_txn' = WithTables(idx_txn, IdxOf(r.v))
           /\ data_env' = DataOf(r.env)
           /\ idx_env' = IdxOf(r.env)
           /\ last' = Call("bind", <<pfx, ns>>, None, r.err)
    /\ nops' = nops + 1
    /\ UNCHANGED <<is_txn_rw, scopes>>
    /\ UNCHANGED ldp_vars

\* Scopes nested one in another, each of either mode, with few arguments.
Next ==
    \/ \E write \in BOOLEAN : Enter(write)
    \/ ExitNormal
    \/ ExitRaised
    \/ \E context \in {None, "g"} : Add(<<"a", "a", "b">>, context)
    \/ \E triple_pattern \in {<<None, None, None>>, <<"a", "a", "b">>},
          context \in {None, "g"} : Remove(triple_pattern, context)
    \/ RemoveGraph("g")
    \/ AddGraph("g")
    \/ Bind("p1", "n1")

Spec == Init /\ [][Next]_vars

\* Write scopes entered one after the other, with all the arguments.
StoreNext ==
    \/ scopes = <<>> /\ Enter(TRUE)
    \/ ExitNormal
    \/ ExitRaised
    \/ \E triple \in AddTriples, context \in ContextArgs : Add(triple, context)
    \/ \E triple_pattern \in RemovePatterns, context \in ContextArgs :
           Remove(triple_pattern, context)
    \/ \E graph \in GraphNames \cup GraphObjs : RemoveGraph(graph)
    \/ \E graph \in GraphNames \cup GraphObjs : AddGraph(graph)

StoreSpec == Init /\ [][StoreNext]_vars

\* Write scopes entered one after the other in which triples are only added.
AddNext ==
    \/ scopes = <<>> /\ Enter(TRUE)
    \/ ExitNormal
    \/ ExitRaised
    \/ \E triple \in AddTriples, context \in ContextArgs : Add(triple, context)

AddSpec == Init /\ [][AddNext]_vars

\* commit() when LMDB fails to commit the transactions named in failed
\* ("data", "index"), e.g. for lack of space: a transaction whose commit fails
\* is aborted by LMDB and lmdb.Error is raised, which commit() catches.
commit_failing(failed) ==
    /\ data_env' = IF data_txn.st = "open" /\ data_txn.write
                      /\ "data" \notin failed
                   THEN data_txn.db ELSE data_env
    /\ idx_env' = IF idx_txn.st = "open" /\ idx_txn.write
                     /\ "index" \notin failed
                  THEN idx_txn.db ELSE idx_env
    /\ data_txn' = IF data_txn.st = "open"
                   THEN Finished(data_txn, EmptyData) ELSE data_txn
    /\ idx_txn' = IF idx_txn.st = "open"
                  THEN Finished(idx_txn, EmptyIdx) ELSE idx_txn
    /\ is_txn_rw' = None

\* Which commits fail, as recorded in the call.
FailedSeq(failed) ==
    IF failed = {"data"} THEN <<"data">>
    ELSE IF failed = {"index"} THEN <<"index">>
    ELSE <<"data", "index">>

\* TxnManager.__exit__(None, None, None) of a write scope when LMDB fails to
\* commit some of the two transactions; no exception leaves commit().
ExitCommitFails(failed) ==
    /\ scopes # <<>>
    /\ data_txn.st = "open" /\ data_txn.write
    /\ idx_txn.st = "open" /\ idx_txn.write
    /\ commit_failing(failed)
    /\ scopes' = Popped(FALSE)
    /\ last' = Call("__exit__", FailedSeq(failed), None, None)
    /\ UNCHANGED nops
    /\ UNCHANGED ldp_vars

\* Write scopes entered one after the other, whose commits may fail.
CommitNext ==
    \/ scopes = <<>> /\ Enter(TRUE)
    \/ ExitNormal
    \/ ExitRaised
    \/ \E failed \in {{"data"}, {"index"}, {"data", "index"}} :
           ExitCommitFails(failed)
    \/ \E triple \in AddTriples, context \in {None, "g"} : Add(triple, context)

CommitSpec == Init /\ [][CommitNext]_vars

\* Threads sharing one store handle, each running TxnManager scopes of its own.
Threads == {"t1", "t2"}

\* The scope of thread th: the store has one data_txn, idx_txn and is_txn_rw
\* for all threads, so the scopes of all threads act on the same attributes.
ThreadScope(th, write, began) == [thread |-> th] @@ Scope(write, began)
Running(th) == \E j \in 1..Len(scopes) : scopes[j].thread = th
ScopeOf(th) == scopes[CHOOSE j \in 1..Len(scopes) : scopes[j].thread = th]

\* TxnManager(store, write).__enter__() in thread th, which has no scope yet.
ThreadEnter(th, write) ==
    /\ ~Running(th)
    /\ IF ~write \/ is_txn_rw # "True"
       THEN begin(write)
       ELSE UNCHANGED <<data_txn, idx_txn, is_txn_rw>>
    /\ scopes' = Append(scopes,
                        ThreadScope(th, write, ~write \/ is_txn_rw # "True"))
    /\ last' = Call("__enter__", <<th>>, None, None)
    /\ UNCHANGED <<data_env, idx_env, nops>>
    /\ UNCHANGED ldp_vars

\* TxnManager.__exit__ in thread th, normally or with an exception.
ThreadExit(th, raised) ==
    /\ Running(th)
    /\ IF raised THEN rollback ELSE commit
    /\ scopes' = SelectSeq(scopes, LAMBDA sc : sc.thread # th)
    /\ last' = Call("__exit__", <<th>>, None,
                    IF raised THEN "RuntimeError" ELSE None)
    /\ UNCHANGED nops
    /\ UNCHANGED ldp_vars

\* The thread whose __enter__ began the transactions the store holds now.
TxnOwner ==
    LET began == {j \in 1..Len(scopes) : scopes[j].began}
    IN  IF began = {} THEN None
        ELSE scopes[CHOOSE j \in began : \A k \in began : k <= j].thread

\* Two threads, each entering and leaving scopes and adding triples.
ThreadNext ==
    \/ \E th \in Threads, write \in BOOLEAN : ThreadEnter(th, write)
    \/ \E th \in Threads, raised \in BOOLEAN : ThreadExit(th, raised)
    \/ \E context \in {None, "g"} : Add(<<"a", "a", "b">>, context)

ThreadSpec == Init /\ [][ThreadNext]_vars

\* commit() step by step, as another thread or process sees it.  First
\* self.data_txn.commit(): TxnManager.__exit__ has called commit(), the data
\* environment is committed and the index environment is not yet.
CommitData ==
    /\ scopes # <<>>
    /\ data_txn.st = "open" /\ data_txn.write
    /\ idx_txn.st = "open" /\ idx_txn.write
    /\ data_env' = data_txn.db
    /\ data_txn' = Finished(data_txn, EmptyData)
    /\ last' = Call("commit", <<"data">>, None, None)
    /\ UNCHANGED <<idx_env, idx_txn, is_txn_rw, scopes, nops>>
    /\ UNCHANGED ldp_vars

\* commit() is between its two txn.commit() calls.
Committing == data_txn.st = "done" /\ idx_txn.st = "open" /\ idx_txn.write

\* Then self.idx_txn.commit() and the end of __exit__.
CommitIndex ==
    /\ scopes # <<>>
    /\ Committing
    /\ idx_env' = idx_txn.db
    /\ idx_txn' = Finished(idx_txn, EmptyIdx)
    /\ is_txn_rw' = None
    /\ scopes' = Popped(TRUE)
    /\ last' = Call("__exit__", <<>>, None, None)
    /\ UNCHANGED <<data_env, data_txn, nops>>
    /\ UNCHANGED ldp_vars

\* Write scopes entered one after the other in which triples are added, with
\* the normal exit taken in the two steps of commit().
CommitStepNext ==
    \/ scopes = <<>> /\ Enter(TRUE)
    \/ CommitData
    \/ CommitIndex
    \/ ~Committing /\ ExitRaised
    \/ \E triple \in AddTriples, context \in {None, "g"} :
           ~Committing /\ Add(triple, context)

CommitStepSpec == Init /\ [][CommitStepNext]_vars

\* Prefixes and namespaces given to bind().
Prefixes == {"p1", "p2"}
Namespaces == {"n1", "n2"}

\* Scopes of either mode entered one after the other, in which prefixes are
\* bound, bound again and looked up.
BindNext ==
    \/ \E write \in BOOLEAN : scopes = <<>> /\ Enter(write)
    \/ ExitNormal
    \/ ExitRaised
    \/ \E pfx \in Prefixes, ns \in Namespaces : Bind(pfx, ns)

BindSpec == Init /\ [][BindNext]_vars

\* ------------------------------------------- LexicalSequence on its own --
\* Bytes at and next to the two ends of the range a key byte can take.
EdgeBytes == {KEY_START, KEY_START + 1, BYTE_MAX - 1, BYTE_MAX}
\* Keys of the declared length made of such bytes.
SeqKeys == [1..KEY_LENGTH -> EdgeBytes]

\* seq.next(n), n being the key given or the key the last call returned.
SeqCall ==
    /\ seq.calls < MaxCalls /\ seq.err = None
    /\ LET n == IF seq.calls = 0 THEN seq.n ELSE seq.out
           r == next(n)
       IN  seq' = [n |-> n, calls |-> seq.calls + 1, out |-> r,
                   err |-> IF r = Exhausted THEN "RuntimeError" ELSE None]
    /\ UNCHANGED <<data_env, idx_env, data_txn, idx_txn, is_txn_rw, scopes,
                   last, nops, req, repo>>

\* A sequence given any key and asked for the keys that follow.
SeqInit == InitStore /\ seq \in {Sequence(n) : n \in SeqKeys}
SeqSpec == SeqInit /\ [][SeqCall]_vars

\* ------------------------------------------------ Ldpr: atomic operations --
\* The variables of the store, which no resource operation modelled below
\* touches: the operations write through the layout (rdfly), whose store is
\* kept here as the set of changes committed and the set of changes pending.
store_vars ==
    <<data_env, idx_env, data_txn, idx_txn, is_txn_rw, scopes, last, nops,
      seq>>

\* The methods of Ldpr decorated with @atomic.
AtomicOps == {"post", "put", "delete", "resurrect", "purge", "create_version",
              "revert_to_version"}

\* The values of `notify` with which the body of an operation writes.  A
\* write of the layout that goes around _modify_rsrc counts as notify=False.
\* create_version only calls create_rsrc_snapshot, which passes notify=False;
\* purge only calls rdfly.purge_rsrc; resurrect only calls _modify_rsrc with
\* the default notify=True.
Notifies_all(op) == BOOLEAN
Notifies(op) ==
    IF op \in {"create_version", "purge"} THEN {FALSE}
    ELSE IF op = "resurrect" THEN {TRUE}
    ELSE BOOLEAN

\* wrapper(self, ...) of one decorated method that was called and has not
\* returned: in the body fn ("body") or in the loop over request.changelog
\* ("dispatch", i being the next record); wrote: the body has written;
\* backup: the body has called create_version.
Wrapper(op) ==
    [op |-> op, pc |-> "body", i |-> 1, wrote |-> FALSE, backup |-> FALSE]

Frame == req.stack[Len(req.stack)]
InBody == req.stack # <<>> /\ ~req.exc /\ Frame.pc = "body"
Caller == SubSeq(req.stack, 1, Len(req.stack) - 1)

\* A request calls a decorated method: request.changelog = [], then fn.
AtomicCall(op, messaging) ==
    /\ req.stack = <<>>
    /\ req.next <= MaxChanges
    /\ req' = [req EXCEPT !.stack = <<Wrapper(op)>>,
                          !.changelog = <<>>,
                          !.exc = FALSE,
                          !.messaging = messaging,
                          !.result = "running",
                          !.entry = [store |-> req.store, sent |-> req.sent]]
    /\ UNCHANGED <<store_vars, repo>>

\* revert_to_version(..., backup=True) starts with self.create_version(uuid4()),
\* a decorated method: its wrapper rebinds request.changelog to a new list.
CreateVersionCall ==
    /\ InBody
    /\ Frame.op = "revert_to_version" /\ ~Frame.wrote /\ ~Frame.backup
    /\ req' = [req EXCEPT
                 !.stack = Append([@ EXCEPT ![Len(@)].backup = TRUE],
                                  Wrapper("create_version")),
                 !.changelog = <<>>]
    /\ UNCHANGED <<store_vars, repo>>

\* _modify_rsrc(ev_type, remove_trp, add_trp, notify): the change is written
\* in the store transaction and, if notify and the `messaging` configuration
\* are set, a record of it is appended to request.changelog.
_modify_rsrc(notify) ==
    /\ InBody
    /\ req.next <= MaxChanges
    /\ notify \in Notifies(Frame.op)
    /\ req' = [req EXCEPT
                 !.txn = @ \cup {req.next},
                 !.changelog = IF notify /\ req.messaging
                               THEN Append(@, req.next) ELSE @,
                 !.next = @ + 1,
                 !.stack[Len(req.stack)].wrote = TRUE]
    /\ UNCHANGED <<store_vars, repo>>

\* The except clause of the wrapper: fn raised, by itself or because a
\* decorated method it called raised.  store.rollback(), then raise.
WrapperExcept ==
    /\ req.stack # <<>>
    /\ req.exc \/ Frame.pc = "body"
    /\ req' = [req EXCEPT !.txn = {},
                          !.stack = Caller,
                          !.exc = Caller # <<>>,
                          !.result = IF Caller = <<>> THEN "raised" ELSE @]
    /\ UNCHANGED <<store_vars, repo>>

\* The else clause of the wrapper: fn returned.  store.commit().
StoreCommit ==
    /\ InBody
    /\ req' = [req EXCEPT !.store = @ \cup req.txn,
                          !.txn = {},
                          !.stack[Len(req.stack)].pc = "dispatch"]
    /\ UNCHANGED <<store_vars, repo>>

\* for ev in request.changelog: self._send_event_msg(*ev)
_send_event_msg ==
    /\ req.stack # <<>> /\ Frame.pc = "dispatch"
    /\ Frame.i <= Len(req.changelog)
    /\ req' = [req EXCEPT !.sent = Append(@, req.changelog[Frame.i]),
                          !.stack[Len(req.stack)].i = @ + 1]
    /\ UNCHANGED <<store_vars, repo>>

\* return ret
WrapperReturn ==
    /\ req.stack # <<>> /\ Frame.pc = "dispatch"
    /\ Frame.i > Len(req.changelog)
    /\ req' = [req EXCEPT !.stack = Caller,
                          !.result = IF Caller = <<>> THEN "returned" ELSE @]
    /\ UNCHANGED <<store_vars, repo>>

\* Requests made one after the other, each calling one decorated method.
AtomicNext ==
    \/ \E op \in AtomicOps, messaging \in BOOLEAN : AtomicCall(op, messaging)
    \/ CreateVersionCall
    \/ \E notify \in BOOLEAN : _modify_rsrc(notify)
    \/ WrapperExcept
    \/ StoreCommit
    \/ _send_event_msg
    \/ WrapperReturn

AtomicSpec == Init /\ [][AtomicNext]_vars

\* ---------------------------------------------- Ldpr: resource lifecycle --
\* Objects of the user triple of a payload.
Titles == {"x", "y"}

\* The outcome of a call: the exception raised, or the dataset written and
\* the value returned.
Fails(e) == [err |-> e, ds |-> {}, ret |-> None]
Done(ds, ret) == [err |-> None, ds |-> ds, ret |-> ret]

\* The server-managed predicates and types (dictionaries.srv_mgd_terms).
srv_mgd_predicates ==
    {"fcrepo:created", "fcrepo:createdBy", "fcrepo:lastModified",
     "fcrepo:lastModifiedBy", "premis:hasMessageDigest", "ldp:contains",
     "fcrepo:hasParent", "fcrepo:hasVersion", "fcrepo:hasVersions"}
srv_mgd_types ==
    {"fcrepo:Resource", "ldp:Resource", "ldp:RDFSource", "ldp:Container",
     "ldp:BasicContainer", "fcrepo:Pairtree", "fcrepo:Binary",
     "fcrepo:Container", "fcrepo:Version"}

\* The IRIs inside the webroot: those of the uids a resource can have.
RepoIris == {"a", "b", "a/b", "a/b/c"}

\* The triples of a dataset with a given subject, and with a given object.
Rsrc(ds, s) == {t \in ds : t[1] = s}
Inbound(ds, o) == {t \in ds : t[3] = o}

\* SimpleLayout.extract_imr(uri, strict, incl_inbound, incl_children,
\* incl_srv_mgd): the CONSTRUCT query yields the triples of the subject, with
\* the triples pointing at it if incl_inbound, and without its ldp:contains
\* triples unless incl_srv_mgd and incl_children.  A tombstone raises
\* TombstoneError whatever strict is; a pointer to a tombstone reads the
\* undefined name tombstone_rsrc.
extract_imr(ds, uri, strict, incl_inbound, incl_children, incl_srv_mgd) ==
    LET own == {t \in Rsrc(ds, uri) :
                  (incl_srv_mgd /\ incl_children) \/ t[2] # "ldp:contains"}
        gr == IF own = {} THEN {}
              ELSE own \cup (IF incl_inbound THEN Inbound(ds, uri) ELSE {})
    IN  IF strict /\ gr = {} THEN Fails("ResourceNotExistsError")
        ELSE IF <<uri, "rdf:type", "fcsystem:Tombstone">> \in gr
        THEN Fails("TombstoneError")
        ELSE IF \E t \in gr : t[1] = uri /\ t[2] = "fcsystem:tombstone"
        THEN Fails("NameError")
        ELSE Done(gr, None)

\* SimpleLayout.ask_rsrc_exists(urn): ASK { ?s ?p ?o } with ?s bound.
ask_rsrc_exists(ds, urn) == Rsrc(ds, urn) # {}

\* The uri of version n of a resource, and of its versions container.
VersUri(uid) == uid \o "/fcr:versions"
VerUri(uid, n) == VersUri(uid) \o "/v" \o ToString(n)
VerUris(uid) == {VerUri(uid, n) : n \in 1..MaxVersions}

\* A tombstone, or a pointer to the tombstone of an ancestor, is in the place
\* of the resource.
IsTombstone(ds, uid) ==
    \/ <<uid, "rdf:type", "fcsystem:Tombstone">> \in ds
    \/ \E t \in Rsrc(ds, uid) : t[2] = "fcsystem:tombstone"

\* rdfly.modify_rsrc(uid, remove_trp, add_trp)
modify_rsrc(ds, uid, remove_trp, add_trp) == (ds \ remove_trp) \cup add_trp

\* rdfly.get_metadata(uid): NOT_FOUND for a missing resource, GONE for a
\* tombstone.
get_metadata(ds, uid) ==
    IF Rsrc(ds, uid) = {} THEN Fails("ResourceNotExistsError")
    ELSE IF IsTombstone(ds, uid) THEN Fails("TombstoneError")
    ELSE Done(Rsrc(ds, uid), None)

\* rdfly.get_version_info(uid): the versions the resource is linked to.
get_version_info(ds, uid) ==
    {n \in 1..MaxVersions : <<uid, "fcrepo:hasVersion", VerUri(uid, n)>> \in ds}

\* rdfly.create_or_replace_rsrc(uid, trp): creating on a tombstone is
\* disallowed (GONE); otherwise the new graph overwrites the existing one.
create_or_replace_rsrc_any(ds, uid, trp) ==
    Done((ds \ Rsrc(ds, uid)) \cup trp, None)
create_or_replace_rsrc(ds, uid, trp) ==
    IF IsTombstone(ds, uid) THEN Fails("TombstoneError")
    ELSE Done((ds \ Rsrc(ds, uid)) \cup trp, None)

\* rdfly.purge_rsrc(uid, inbound): erases the resource, its tombstone and all
\* its versions, and the triples pointing at it if inbound.
purge_rsrc(ds, uid, inbound) ==
    ds \ (Rsrc(ds, uid) \cup Rsrc(ds, VersUri(uid))
            \cup UNION {Rsrc(ds, v) : v \in VerUris(uid)}
            \cup (IF inbound THEN Inbound(ds, uid) ELSE {}))

\* The uids of a path of three segments.
PathUids == {"a", "a/b", "a/b/c"}

\* The payload of a post or put: a user type and a user triple.
provided_imr(uid, title) ==
    {<<uid, "rdf:type", "ldp:Container">>, <<uid, "dc:title", title>>}

\* Ldpr._add_srv_mgd_triples(create): base types, digest, and the creation
\* and modification stamps; on an update the creation stamps are the stored
\* ones.
_add_srv_mgd_triples_new(gr, uid, create, metadata, ts) ==
    LET kept(p) == {<<uid, p, t[3]>> : t \in {m \in metadata : m[2] = p}}
    IN  {t \in gr : t[2] \notin {"premis:hasMessageDigest", "fcrepo:created",
                                 "fcrepo:createdBy", "fcrepo:lastModified",
                                 "fcrepo:lastModifiedBy"}}
          \cup {<<uid, "rdf:type", "fcrepo:Resource">>,
                <<uid, "rdf:type", "ldp:Resource">>,
                <<uid, "rdf:type", "ldp:RDFSource">>,
                <<uid, "premis:hasMessageDigest", "urn:sha1">>,
                <<uid, "fcrepo:lastModified", ts>>,
                <<uid, "fcrepo:lastModifiedBy", "BypassAdmin">>}
          \cup (IF TRUE
                THEN {<<uid, "fcrepo:created", ts>>,
                      <<uid, "fcrepo:createdBy", "BypassAdmin">>}
                ELSE kept("fcrepo:created") \cup kept("fcrepo:createdBy"))
_add_srv_mgd_triples(gr, uid, create, metadata, ts) ==
    LET kept(p) == {<<uid, p, t[3]>> : t \in {m \in metadata : m[2] = p}}
    IN  {t \in gr : t[2] \notin {"premis:hasMessageDigest", "fcrepo:created",
                                 "fcrepo:createdBy", "fcrepo:lastModified",
                                 "fcrepo:lastModifiedBy"}}
          \cup {<<uid, "rdf:type", "fcrepo:Resource">>,
                <<uid, "rdf:type", "ldp:Resource">>,
                <<uid, "rdf:type", "ldp:RDFSource">>,
                <<uid, "premis:hasMessageDigest", "urn:sha1">>,
                <<uid, "fcrepo:lastModified", ts>>,
                <<uid, "fcrepo:lastModifiedBy", "BypassAdmin">>}
          \cup (IF create
                THEN {<<uid, "fcrepo:created", ts>>,
                      <<uid, "fcrepo:createdBy", "BypassAdmin">>}
                ELSE kept("fcrepo:created") \cup kept("fcrepo:createdBy"))

\* The path ancestors of a uid, deepest first: what splitting the uid at
\* each '/' gives.  A uid without '/' has none.
Ancestors(uid) ==
    CASE uid = "a/b/c" -> <<"a/b", "a">>
      [] uid = "a/b" -> <<"a">>
      [] OTHER -> <<>>

\* Ldpr._create_path_segment(uid, child_uid, real_parent_uid) while urn is
\* being created: the pairtree node of a missing path segment.
_create_path_segment(ds, uid, child_uid, real_parent_uid, urn) ==
    LET add_trp == {<<uid, "fcsystem:contains", child_uid>>,
                    <<uid, "ldp:contains", urn>>,
                    <<uid, "rdf:type", "ldp:Container">>,
                    <<uid, "rdf:type", "ldp:BasicContainer">>,
                    <<uid, "rdf:type", "ldp:RDFSource">>,
                    <<uid, "rdf:type", "fcrepo:Pairtree">>,
                    <<uid, "fcrepo:hasParent", real_parent_uid>>}
        ds1 == modify_rsrc(ds, uid, {}, add_trp)
    IN  IF Ancestors(uid) = <<>>
        THEN modify_rsrc(ds1, ROOT_UID, {},
                         {<<ROOT_UID, "fcsystem:contains", uid>>})
        ELSE ds1

\* Ldpr._find_parent_or_create_pairtree(): the deepest path ancestor that
\* exists, or the root, is the parent; the ancestors below it become path
\* segments.  Yields the parent and the dataset.
_find_parent_or_create_pairtree_root(ds, uid) ==
    [parent_uid |-> ROOT_UID, ds |-> ds]
_find_parent_or_create_pairtree(ds, uid) ==
    LET anc == Ancestors(uid)
        found == {i \in 1..Len(anc) : ask_rsrc_exists(ds, anc[i])}
        stop == IF found = {} THEN Len(anc) + 1
                ELSE CHOOSE i \in found : \A j \in found : i <= j
        parent_uid == IF found = {} THEN ROOT_UID ELSE anc[stop]
        child(i) == IF i = 1 THEN uid ELSE anc[i - 1]
        segment[i \in 0..Len(anc)] ==
            IF i = 0 THEN ds
            ELSE _create_path_segment(segment[i - 1], anc[i], child(i),
                                      parent_uid, uid)
    IN  [parent_uid |-> parent_uid, ds |-> segment[stop - 1]]

\* Ldpr._add_ldp_dc_ic_rel(cont_rsrc): the resource gets fcrepo:hasParent;
\* a direct container with a membership resource and a member relation
\* gets the membership triple; an indirect container with an inserted
\* content relation gets it for the object of that relation in the payload.
_add_ldp_dc_ic_rel_plain(ds, uid, cont_uid, provided) ==
    LET md == get_metadata(ds, cont_uid)
    IN  IF md.err # None THEN Fails(md.err)
        ELSE Done(modify_rsrc(ds, uid, {},
                              {<<uid, "fcrepo:hasParent", cont_uid>>}), None)
_add_ldp_dc_ic_rel(ds, uid, cont_uid, provided) ==
    LET md == get_metadata(ds, cont_uid)
        cont_p == {t[2] : t \in md.ds}
        value(gr, p) == CHOOSE o \in {t[3] : t \in {m \in gr : m[2] = p}} : TRUE
        has(gr, p) == \E t \in gr : t[2] = p
        s == value(md.ds, "ldp:membershipResource")
        p == value(md.ds, "ldp:hasMemberRelation")
        rel == value(md.ds, "ldp:insertedContentRelation")
        mbr == {"ldp:membershipResource", "ldp:hasMemberRelation"}
                 \subseteq cont_p
        direct == <<cont_uid, "rdf:type", "ldp:DirectContainer">> \in md.ds
        indirect ==
            /\ <<cont_uid, "rdf:type", "ldp:IndirectContainer">> \in md.ds
            /\ "ldp:insertedContentRelation" \in cont_p
        member ==
            IF mbr /\ direct THEN {<<s, p, uid>>}
            ELSE IF mbr /\ indirect THEN {<<s, p, value(provided, rel)>>}
            ELSE {}
    IN  IF md.err # None THEN Fails(md.err)
        ELSE IF mbr /\ ~direct /\ indirect /\ ~has(provided, rel)
        THEN Fails("AttributeError")
        ELSE Done(modify_rsrc(ds, uid, {},
                              {<<uid, "fcrepo:hasParent", cont_uid>>}
                                \cup member), None)

\* Ldpr._set_containment_rel(): the parent found contains the resource.
_set_containment_rel_skip(ds, uid, provided) ==
    _add_ldp_dc_ic_rel(ds, uid, ROOT_UID, provided)
_set_containment_rel(ds, uid, provided) ==
    LET found == IF Ancestors(uid) # <<>>
                 THEN _find_parent_or_create_pairtree(ds, uid)
                 ELSE [parent_uid |-> ROOT_UID, ds |-> ds]
        ds1 == modify_rsrc(found.ds, found.parent_uid, {},
                           {<<found.parent_uid, "ldp:contains", uid>>})
    IN  _add_ldp_dc_ic_rel(ds1, uid, found.parent_uid, provided)

\* Ldpr.is_stored of an instance that has not read its imr.
is_stored(ds, uid) == ask_rsrc_exists(ds, uid)

\* The objects of a payload that are IRIs inside the webroot.
Links(gr) == {t[3] : t \in gr} \cap RepoIris

\* Ldpr._check_ref_int(config): a link of the payload to a resource that does
\* not exist raises if config is 'strict'; otherwise the triples with that
\* object leave the payload.
_check_ref_int_keep(ds, gr, config) == Done(gr, None)
_check_ref_int(ds, gr, config) ==
    LET dangling == {o \in Links(gr) : ~ask_rsrc_exists(ds, o)}
    IN  IF dangling # {} /\ config = "strict"
        THEN Fails("RefIntViolationError")
        ELSE Done({t \in gr : t[3] \notin dangling}, None)

\* Ldpr._create_or_replace_rsrc(create_only) with payload `provided`, at
\* request time ts, referential_integrity being ref_int (None if not set).
_create_or_replace_rsrc(ds, uid, provided, create_only, ts, ref_int) ==
    LET create == create_only \/ ~is_stored(ds, uid)
        md == IF create THEN Done({}, None) ELSE get_metadata(ds, uid)
        gr == _add_srv_mgd_triples(provided, uid, create, md.ds, ts)
        chk == IF ref_int # None THEN _check_ref_int(ds, gr, ref_int)
               ELSE Done(gr, None)
        r == create_or_replace_rsrc(ds, uid, chk.ds)
        cont == _set_containment_rel(r.ds, uid, chk.ds)
    IN  IF md.err # None THEN Fails(md.err)
        ELSE IF chk.err # None THEN Fails(chk.err)
        ELSE IF r.err # None THEN Fails(r.err)
        ELSE IF cont.err # None THEN Fails(cont.err)
        ELSE Done(cont.ds, IF create THEN "_create_" ELSE "_update_")

\* Ldpr.post() and Ldpr.put()
post(ds, uid, provided, ts, ref_int) ==
    _create_or_replace_rsrc(ds, uid, provided, TRUE, ts, ref_int)
put(ds, uid, provided, ts, ref_int) ==
    _create_or_replace_rsrc(ds, uid, provided, FALSE, ts, ref_int)

\* Ldpr.create_rsrc_snapshot(ver_uid): the version is a copy of the metadata
\* without the repository types and the parent, versions and digest triples;
\* the resource is linked to it.
create_rsrc_snapshot(ds, uid, n) ==
    LET md == get_metadata(ds, uid)
        ver_uri == VerUri(uid, n)
        skipped(t) ==
            \/ t[2] = "rdf:type" /\ t[3] \in {"fcrepo:Binary", "fcrepo:Container",
                                               "fcrepo:Resource"}
            \/ t[2] \in {"fcrepo:hasParent", "fcrepo:hasVersions",
                         "premis:hasMessageDigest"}
        ver_add_gr == {<<ver_uri, "rdf:type", "fcrepo:Version">>}
                        \cup {<<ver_uri, t[2], t[3]>> :
                                t \in {m \in md.ds : ~skipped(m)}}
        ds1 == modify_rsrc(ds, ver_uri, {}, ver_add_gr)
        rsrc_add_gr == {<<uid, "fcrepo:hasVersion", ver_uri>>,
                        <<uid, "fcrepo:hasVersions", VersUri(uid)>>}
    IN  IF md.err # None THEN Fails(md.err)
        ELSE Done(modify_rsrc(ds1, uid, {}, rsrc_add_gr), ver_uri)

\* Ldpr.create_version(ver_uid)
create_version(ds, uid, n) == create_rsrc_snapshot(ds, uid, n)

\* Ldpr.revert_to_version(ver_uid, backup) to version v, n being the version
\* uid drawn for the backup.  create_version commits the backup as it
\* returns; the payload is made of the triples of the version that are not
\* server-managed.  Yields the dataset the store holds afterwards, also when
\* the operation raises.
revert_to_version_untyped(ds, uid, v, backup, n, ts, ref_int) ==
    LET snap == IF backup THEN create_version(ds, uid, n) ELSE Done(ds, None)
        ver_gr == get_metadata(snap.ds, VerUri(uid, v))
        revert_gr == {<<uid, t[2], t[3]>> :
                        t \in {m \in ver_gr.ds :
                                 /\ m[2] \notin srv_mgd_predicates
                                 /\ ~(m[2] = "rdf:type"
                                        \/ m[3] \in srv_mgd_types)}}
        r == _create_or_replace_rsrc(snap.ds, uid, revert_gr, FALSE, ts,
                                     ref_int)
    IN  IF snap.err # None THEN [err |-> snap.err, ds |-> ds, ret |-> None]
        ELSE IF ver_gr.err # None
        THEN [err |-> ver_gr.err, ds |-> snap.ds, ret |-> None]
        ELSE IF r.err # None
        THEN [err |-> r.err, ds |-> snap.ds, ret |-> None]
        ELSE r
revert_to_version(ds, uid, v, backup, n, ts, ref_int) ==
    LET snap == IF backup THEN create_version(ds, uid, n) ELSE Done(ds, None)
        ver_gr == get_metadata(snap.ds, VerUri(uid, v))
        revert_gr == {<<uid, t[2], t[3]>> :
                        t \in {m \in ver_gr.ds :
                                 /\ m[2] \notin srv_mgd_predicates
                                 /\ ~(m[2] = "rdf:type"
                                        /\ m[3] \in srv_mgd_types)}}
        r == _create_or_replace_rsrc(snap.ds, uid, revert_gr, FALSE, ts,
                                     ref_int)
    IN  IF snap.err # None THEN [err |-> snap.err, ds |-> ds, ret |-> None]
        ELSE IF ver_gr.err # None
        THEN [err |-> ver_gr.err, ds |-> snap.ds, ret |-> None]
        ELSE IF r.err # None
        THEN [err |-> r.err, ds |-> snap.ds, ret |-> None]
        ELSE r

\* Ldpr._bury_rsrc(inbound, tstone_pointer): a snapshot, then the triples of
\* the imr read before it give way to the tombstone, or to a pointer to the
\* tombstone of tstone_pointer if one is given, then the triples of the imr
\* pointing at the resource are removed.
_bury_rsrc(ds, uid, n, imr, inbound, ts, tstone_pointer) ==
    LET snap == create_rsrc_snapshot(ds, uid, n)
        add_trp == IF tstone_pointer # None
                   THEN {<<uid, "fcsystem:tombstone", tstone_pointer>>}
                   ELSE {<<uid, "rdf:type", "fcsystem:Tombstone">>,
                         <<uid, "fcrepo:created", ts>>}
        ds1 == modify_rsrc(snap.ds, uid, imr, add_trp)
        ib == {t[1] : t \in {m \in imr : m[3] = uid}}
        ds2 == IF inbound
               THEN ds1 \ {t \in ds1 : t[1] \in ib /\ t[3] = uid}
               ELSE ds1
    IN  IF snap.err # None THEN Fails(snap.err) ELSE Done(ds2, "_delete_")

\* Ldpr._purge_rsrc(inbound)
_purge_rsrc(ds, uid, inbound) ==
    LET imr == extract_imr(ds, uid, FALSE, TRUE, TRUE, TRUE)
    IN  IF imr.err # None THEN Fails(imr.err)
        ELSE Done(purge_rsrc(ds, uid, inbound), "_delete_")

\* The loop of delete() over the children: each is loaded without its own
\* children and buried with a pointer to the resource being deleted, or
\* purged.  The snapshots of one delete() carry the same version number, each
\* under the versions of its own resource.
RECURSIVE delete_each(_, _, _, _, _, _, _)
delete_each(ds, children, n, inbound, leave_tstone, ts, urn) ==
    IF children = {} THEN Done(ds, "_delete_")
    ELSE LET child_uri == CHOOSE c \in children : TRUE
             child_imr == extract_imr(ds, child_uri, TRUE, FALSE, FALSE, TRUE)
             r == IF child_imr.err # None THEN Fails(child_imr.err)
                  ELSE IF leave_tstone
                  THEN _bury_rsrc(ds, child_uri, n, child_imr.ds, inbound,
                                  ts, urn)
                  ELSE _purge_rsrc(ds, child_uri, inbound)
         IN  IF r.err # None THEN r
             ELSE delete_each(r.ds, children \ {child_uri}, n, inbound,
                              leave_tstone, ts, urn)

\* The objects a graph reaches from s over one or more p (the path p+).
RECURSIVE PathPlus(_, _, _, _)
PathPlus(gr, from, p, seen) ==
    LET step == {t[3] : t \in {m \in gr : m[1] \in from /\ m[2] = p}} \ seen
    IN  IF step = {} THEN seen
        ELSE PathPlus(gr, step, p, seen \cup step)

\* Ldpr.delete(inbound, delete_children, leave_tstone): the children are
\* what the imr of the resource reaches over ldp:contains+; the resource is
\* buried or purged, then each child is.
delete(ds, uid, n, inbound, delete_children, leave_tstone, ts) ==
    LET imr == extract_imr(ds, uid, TRUE, FALSE, TRUE, TRUE)
        children == IF delete_children
                    THEN PathPlus(imr.ds, {uid}, "ldp:contains", {})
                    ELSE {}
        ret == IF leave_tstone
               THEN _bury_rsrc(ds, uid, n, imr.ds, inbound, ts, None)
               ELSE _purge_rsrc(ds, uid, inbound)
    IN  IF imr.err # None THEN Fails(imr.err)
        ELSE IF ret.err # None THEN ret
        ELSE delete_each(ret.ds, children, n, inbound, leave_tstone, ts, uid)

\* Ldpr.purge(inbound)
purge(ds, uid, inbound) == _purge_rsrc(ds, uid, inbound)

\* Ldpr.resurrect(): the triples read by extract_imr give way to those of
\* the latest version, without its fcrepo:Version type.
resurrect(ds, uid) ==
    LET imr == extract_imr(ds, uid, FALSE, FALSE, TRUE, TRUE)
        vers == get_version_info(ds, uid)
        latest == CHOOSE n \in vers : \A m \in vers : m <= n
        ver_trp == Rsrc(ds, VerUri(uid, latest))
        copied == {<<uid, t[2], t[3]>> :
                     t \in {v \in ver_trp :
                              v[2] # "rdf:type" \/ v[3] # "fcrepo:Version"}}
        types == {t[3] : t \in {c \in copied : c[2] = "rdf:type"}}
        laz_gr == copied \cup {<<uid, "rdf:type", "fcrepo:Resource">>}
                    \cup (IF "ldp:NonRdfSource" \in types
                          THEN {<<uid, "rdf:type", "fcrepo:Binary">>}
                          ELSE IF "ldp:Container" \in types
                          THEN {<<uid, "rdf:type", "fcrepo:Container">>}
                          ELSE {})
    IN  IF imr.err # None THEN Fails(imr.err)
        ELSE IF vers = {} THEN Fails("IndexError")
        ELSE LET cont == _set_containment_rel(
                             modify_rsrc(ds, uid, imr.ds, laz_gr), uid, {})
             IN  IF cont.err # None THEN Fails(cont.err)
                 ELSE Done(cont.ds, uid)

\* Ldpr.get(): out_graph, the imr without the digest and the version links
\* and, unless incl_srv_mgd, without the triples of a server-managed
\* predicate and without the triples that are an rdf:type or have a
\* server-managed type as object.
out_graph(imr, incl_srv_mgd) ==
    {t \in imr :
       /\ t[2] \notin {"premis:hasMessageDigest", "fcrepo:hasVersion"}
       /\ \/ incl_srv_mgd
          \/ /\ t[2] \notin srv_mgd_predicates
             /\ ~(t[2] = "rdf:type" \/ t[3] \in srv_mgd_types)}

get(ds, uid, incl_children, incl_srv_mgd) ==
    LET imr == extract_imr(ds, uid, TRUE, FALSE, incl_children, incl_srv_mgd)
    IN  IF imr.err # None THEN Fails(imr.err)
        ELSE Done(ds, out_graph(imr.ds, incl_srv_mgd))

\* g.timestamp_term: the time of the request, read from the clock.
Stamp(n) == "t" \o ToString(n)
Now == Stamp(repo.now)

\* A request that calls one operation op on uid with outcome r.  The
\* operation runs in the atomic wrapper: the dataset is written if it
\* returns and left as it was if it raises.
Request(op, uid, r) ==
    /\ repo' = [repo EXCEPT
                  !.ds = IF r.err = None THEN r.ds ELSE @,
                  !.call = [op |-> op, uid |-> uid, err |-> r.err,
                            ret |-> IF op = "get" THEN None ELSE r.ret]]
    /\ UNCHANGED <<store_vars, req>>

LdprPost(uid, title) ==
    Request("post", uid,
            post(repo.ds, uid, provided_imr(uid, title), Now, None))
LdprPut(uid, title) ==
    Request("put", uid, put(repo.ds, uid, provided_imr(uid, title), Now, None))
LdprGet(uid) == Request("get", uid, get(repo.ds, uid, TRUE, TRUE))
LdprResurrect(uid) == Request("resurrect", uid, resurrect(repo.ds, uid))
LdprPurge(uid) == Request("purge", uid, purge(repo.ds, uid, TRUE))

\* delete() and create_version() draw a new version uid (uuid4()).
LdprDelete(uid, leave_tstone) ==
    LET r == delete(repo.ds, uid, repo.nver + 1, TRUE, TRUE, leave_tstone,
                    Now)
    IN  /\ repo.nver < MaxVersions
        /\ repo' = [repo EXCEPT
                      !.ds = IF r.err = None THEN r.ds ELSE @,
                      !.nver = IF r.err = None /\ leave_tstone THEN @ + 1
                               ELSE @,
                      !.prior[uid] = IF r.err = None THEN Rsrc(repo.ds, uid)
                                     ELSE @,
                      !.call = [op |-> IF leave_tstone THEN "delete"
                                       ELSE "delete_purge",
                                uid |-> uid, err |-> r.err, ret |-> r.ret]]
        /\ UNCHANGED <<store_vars, req>>

LdprCreateVersion(uid) ==
    LET r == create_version(repo.ds, uid, repo.nver + 1)
    IN  /\ repo.nver < MaxVersions
        /\ repo' = [repo EXCEPT
                      !.ds = IF r.err = None THEN r.ds ELSE @,
                      !.nver = IF r.err = None THEN @ + 1 ELSE @,
                      !.call = [op |-> "create_version", uid |-> uid,
                                err |-> r.err, ret |-> r.ret]]
        /\ UNCHANGED <<store_vars, req>>

\* revert_to_version(v, backup); the backup draws a new version uid.
LdprRevert(uid, v, backup) ==
    LET r == revert_to_version(repo.ds, uid, v, backup, repo.nver + 1, Now,
                               None)
    IN  /\ backup => repo.nver < MaxVersions
        /\ repo' = [repo EXCEPT
                      !.ds = r.ds,
                      !.nver = IF backup /\ r.ds # repo.ds THEN @ + 1 ELSE @,
                      !.call = [op |-> "revert_to_version", uid |-> uid,
                                err |-> r.err, ret |-> r.ret]]
        /\ UNCHANGED <<store_vars, req>>

\* put() of the payload gr, which the repository remembers having received.
LdprPutGraph(uid, gr, ref_int) ==
    LET r == put(repo.ds, uid, gr, Now, ref_int)
    IN  /\ repo' = [repo EXCEPT
                      !.ds = IF r.err = None THEN r.ds ELSE @,
                      !.sent = [uid |-> uid, gr |-> gr],
                      !.call = [op |-> "put", uid |-> uid, err |-> r.err,
                                ret |-> r.ret]]
        /\ UNCHANGED <<store_vars, req>>

\* get() under the options of the Prefer header; the graph it returns is
\* the body of the response.
LdprGetGraph(uid, incl_children, incl_srv_mgd) ==
    LET r == get(repo.ds, uid, incl_children, incl_srv_mgd)
    IN  /\ repo' = [repo EXCEPT
                      !.got = [gr |-> IF r.err = None THEN r.ret ELSE {},
                               incl_children |-> incl_children,
                               incl_srv_mgd |-> incl_srv_mgd],
                      !.call = [op |-> "get", uid |-> uid, err |-> r.err,
                                ret |-> None]]
        /\ UNCHANGED <<store_vars, req>>

\* Time passes between two requests.
Tick ==
    /\ repo.now < MaxTime
    /\ repo' = [repo EXCEPT !.now = @ + 1]
    /\ UNCHANGED <<store_vars, req>>

\* delete() of a resource along a path, with or without its children.
LdprDeleteTree(uid, delete_children) ==
    LET r == delete(repo.ds, uid, repo.nver + 1, TRUE, delete_children, TRUE,
                    Now)
    IN  /\ repo.nver < MaxVersions
        /\ repo' = [repo EXCEPT
                      !.ds = IF r.err = None THEN r.ds ELSE @,
                      !.nver = IF r.err = None THEN @ + 1 ELSE @,
                      !.call = [op |-> IF delete_children THEN "delete"
                                       ELSE "delete_single",
                                uid |-> uid, err |-> r.err, ret |-> r.ret]]
        /\ UNCHANGED <<store_vars, req>>

\* Requests on the resources, one after the other.
LdprNext ==
    \/ \E uid \in Uids, title \in Titles : LdprPost(uid, title)
    \/ \E uid \in Uids, title \in Titles : LdprPut(uid, title)
    \/ \E uid \in Uids : LdprGet(uid)
    \/ \E uid \in Uids, leave_tstone \in BOOLEAN : LdprDelete(uid, leave_tstone)
    \/ \E uid \in Uids : LdprResurrect(uid)
    \/ \E uid \in Uids : LdprPurge(uid)
    \/ \E uid \in Uids : LdprCreateVersion(uid)

LdprSpec == Init /\ [][LdprNext]_vars

\* Payloads with and without types, and a stamp the client made up.
TypedPayloads(uid) ==
    {{<<uid, "dc:title", "x">>} \cup types \cup stamps :
       types \in SUBSET {<<uid, "rdf:type", "ex:Doc">>,
                         <<uid, "rdf:type", "ldp:Container">>},
       stamps \in SUBSET {<<uid, "fcrepo:createdBy", "me">>}}

\* Resources put and read back.
GetNext ==
    \/ \E uid \in Uids : \E gr \in TypedPayloads(uid) :
          LdprPutGraph(uid, gr, None)
    \/ \E uid \in Uids, incl_children \in BOOLEAN, incl_srv_mgd \in BOOLEAN :
          LdprGetGraph(uid, incl_children, incl_srv_mgd)

GetSpec == Init /\ [][GetNext]_vars

\* Payloads of a container: basic, direct with or without the membership
\* resource and the member relation, or indirect; and of a resource, with or
\* without the triple an indirect container looks for.
ContainerPayloads(uid) ==
    LET title == {<<uid, "dc:title", "x">>}
        direct == {<<uid, "rdf:type", "ldp:DirectContainer">>}
        indirect == {<<uid, "rdf:type", "ldp:IndirectContainer">>,
                     <<uid, "ldp:insertedContentRelation", "ex:target">>}
        mbr_rsrc == {<<uid, "ldp:membershipResource", "b">>}
        mbr_rel == {<<uid, "ldp:hasMemberRelation", "ex:member">>}
    IN  {title \cup mbr_rsrc \cup mbr_rel,
         title \cup direct \cup mbr_rsrc \cup mbr_rel,
         title \cup direct \cup mbr_rsrc,
         title \cup direct \cup mbr_rel,
         title \cup indirect \cup mbr_rsrc \cup mbr_rel}
PathPayloads(uid) ==
    IF uid = "a" THEN ContainerPayloads(uid)
    ELSE IF uid = "a/b"
    THEN {{<<uid, "dc:title", "x">>} \cup target :
            target \in SUBSET {<<uid, "ex:target", "ex:thing">>}}
    ELSE {{<<uid, "dc:title", "x">>}}

\* Resources created along a path, and the topmost read back with or
\* without its children.
PathNext ==
    \/ \E uid \in PathUids : \E gr \in PathPayloads(uid) :
          LdprPutGraph(uid, gr, None)
    \/ \E incl_children \in BOOLEAN : LdprGetGraph("a", incl_children, TRUE)

PathSpec == Init /\ [][PathNext]_vars

\* Resources created along a path, deleted with or without their children
\* and read back.
TreeNext ==
    \/ \E uid \in PathUids : LdprPutGraph(uid, {<<uid, "dc:title", "x">>}, None)
    \/ \E uid \in PathUids, delete_children \in BOOLEAN :
          LdprDeleteTree(uid, delete_children)
    \/ \E uid \in PathUids : LdprGetGraph(uid, TRUE, TRUE)

TreeSpec == Init /\ [][TreeNext]_vars

\* Payloads that differ in a user triple and in a user type.
VersionPayloads(uid) ==
    {{<<uid, "dc:title", "x">>},
     {<<uid, "dc:title", "x">>, <<uid, "rdf:type", "ex:Doc">>},
     {<<uid, "dc:title", "y">>, <<uid, "rdf:type", "ldp:Container">>}}

\* Payloads with a link to the other resource, to the resource itself and
\* to a resource outside the repository.
LinkPayloads(uid) ==
    {{<<uid, "dc:title", "x">>} \cup links :
       links \in SUBSET {<<uid, "ex:ref", "a">>, <<uid, "ex:ref", "b">>,
                         <<uid, "ex:ref", "ex:thing">>}}

\* The values of the referential_integrity setting: not set (None), or one
\* of the strings the configuration may hold, all of which are true for
\* `if ref_int`.
RefIntSettings == {None, "none", "lenient", "strict"}

\* Resources that link to each other, put under each setting.
RefNext ==
    \E uid \in Uids, ref_int \in RefIntSettings :
       \E gr \in LinkPayloads(uid) : LdprPutGraph(uid, gr, ref_int)

RefSpec == Init /\ [][RefNext]_vars

\* One resource written at different times: created or replaced, versioned
\* and reverted.
TimeNext ==
    \/ Tick
    \/ \E gr \in VersionPayloads("a") : LdprPutGraph("a", gr, None)
    \/ LdprCreateVersion("a")
    \/ \E v \in 1..MaxVersions, backup \in BOOLEAN : LdprRevert("a", v, backup)

TimeSpec == Init /\ [][TimeNext]_vars

\* ---------------------------------------------------------- properties ---
\* A triple pattern: each position a term or None (unbound).
AllPatterns == (Terms \cup {None}) \X (Terms \cup {None}) \X (Terms \cup {None})
Matches(triple, pattern) ==
    \A j \in 1..3 : pattern[j] = None \/ pattern[j] = triple[j]
\* The stored triples matching a pattern, in any graph (ctx = None) or in ctx.
Matching(v, pattern, ctx) ==
    {q[1] : q \in {x \in StoredQuads(v) :
                     Matches(x[1], pattern) /\ (ctx = None \/ x[2] = ctx)}}
InTxn == data_txn.st = "open" /\ idx_txn.st = "open"

\* C1: in a store populated by add only, triples(pattern, ctx) yields exactly
\* the stored triples matching the pattern (in ctx when ctx is a named graph),
\* for every pattern and for ctx unspecified or a named graph.
C1_TriplesExact ==
    InTxn =>
        \A pattern \in AllPatterns, ctx \in {None} \cup GraphNames :
            triples(TxnView, pattern, ctx) =
                [err |-> None, res |-> Matching(TxnView, pattern, ctx)]

\* A store call was just made.
Called == nops' = nops + 1
\* The innermost scope was just left.
Exited == Len(scopes') = Len(scopes) - 1
\* A scope was just entered.
Entered == Len(scopes') = Len(scopes) + 1

\* C2: remove(pattern) without context leaves no quad whose triple matches
\* the pattern, in spo:c or in c:spo, under any context.
C2_RemoveEveryContext ==
    (InTxn /\ last.op = "remove" /\ last.ctx = None /\ last.err = None) =>
        /\ \A e \in TxnView.spoc : ~Matches(_from_key(TxnView, e[1]), last.trp)
        /\ \A e \in TxnView.cspo : ~Matches(_from_key(TxnView, e[2]), last.trp)

\* Every triple over the terms, and every graph identifier.
AllTriples == Terms \X Terms \X Terms
AllGraphs == GraphNames \cup {RDFLIB_DEFAULT_GRAPH_URI}

\* C3: remove(pattern, c) with a context changes only associations with c:
\* for every triple t and every context c2 other than c, t is in contexts(t)
\* with c2, and in triples((None, None, None), c2), after the call if and only
\* if it was before.
C3_RemoveInContextOnly ==
    [][(Called /\ InTxn /\ last'.op = "remove" /\ last'.ctx # None) =>
          \A t \in AllTriples, c2 \in AllGraphs \ {GraphOf(last'.ctx)} :
              /\ (c2 \in contexts(TxnView, t).res)
                     <=> (c2 \in contexts(TxnView', t).res)
              /\ (t \in triples(TxnView, <<None, None, None>>, c2).res)
                     <=> (t \in triples(TxnView', <<None, None, None>>, c2).res)
      ]_vars

\* C4: after add(q), q is found by triples on its triple in its context; after
\* q was added and its triple is then removed in its context, it is not found.
C4_AddThenRemove ==
    [][(Called /\ InTxn /\ last'.err = None) =>
          LET found == last'.trp \in
                           triples(TxnView', last'.trp, last'.ctx).res
          IN  /\ last'.op = "add" => found
              /\ (/\ last'.op = "remove"
                  /\ <<last'.trp, GraphOf(last'.ctx)>> \in Top.log) => ~found
      ]_vars

\* C5: adding a quad that is already present leaves every table unchanged,
\* hence the length of the store too, and allocates no term key.
C5_AddIdempotent ==
    (InTxn /\ idx_txn.write) =>
        \A q \in StoredQuads(TxnView) :
            /\ add(TxnView, q[1], q[2]) = [v |-> TxnView, err |-> None]
            /\ __len__(add(TxnView, q[1], q[2]).v, None)
                   = __len__(TxnView, None)

\* C6: a write scope that ends normally commits, the quads added in it are
\* stored for later transactions; a write scope that ends with an exception
\* rolls back, both environments are as they were when it was entered.
C6_CommitOrRollback ==
    [][(Exited /\ Top.write) =>
          IF last'.err = None
          THEN Top.log \subseteq StoredQuads(EnvView')
          ELSE data_env' = Top.entry.d /\ idx_env' = Top.entry.i
      ]_vars

\* A write scope is active: some scope entered is a write scope.
WriterActive == \E j \in 1..Len(scopes) : scopes[j].write

\* C7: a read-only scope opened while a write scope is active leaves the
\* writer's transaction in place; the writes of the outer scope succeed and
\* are committed when it ends normally.
C7_NestedReadKeepsWriter ==
    [][/\ (Entered /\ ~scopes'[Len(scopes')].write /\ WriterActive) =>
              UNCHANGED <<data_txn, idx_txn, is_txn_rw>>
       /\ (Called /\ last'.op = "add" /\ Top.write) => last'.err = None
       /\ (Exited /\ Top.write /\ Len(scopes) = 1 /\ last'.err = None) =>
              Top.log \subseteq StoredQuads(EnvView')
      ]_vars

\* C8: leaving a write scope nested in an active write scope neither commits
\* nor rolls back the outer transaction; an exception in the outer scope
\* afterwards rolls back every write, those of the inner scope included.
C8_NestedWriteIsNoOp ==
    [][/\ (Exited /\ Top.write /\ ~Top.began) =>
              UNCHANGED <<data_env, idx_env, data_txn, idx_txn, is_txn_rw>>
       /\ (Exited /\ Top.write /\ Len(scopes) = 1 /\ last'.err # None) =>
              data_env' = Top.entry.d /\ idx_env' = Top.entry.i
      ]_vars

QuadWrites == {"add", "remove", "remove_graph"}
ReadOnlyTxn == InTxn /\ ~data_txn.write /\ ~idx_txn.write

\* C9 as stated: add, remove or remove_graph called while the active
\* transaction is read-only fails with lmdb.ReadonlyError and leaves both
\* environments unchanged.
C9_ReadOnlyAlwaysFails ==
    [][(Called /\ ReadOnlyTxn /\ last'.op \in QuadWrites) =>
          /\ last'.err = "ReadonlyError"
          /\ UNCHANGED <<data_env, idx_env, data_txn, idx_txn>>
      ]_vars

\* C9 as amended: in a read-only transaction add always fails with
\* lmdb.ReadonlyError; remove fails with it when it finds a triple to remove
\* and remove_graph when it finds one or when the graph is in c:; otherwise
\* they write nothing and do not raise it.  Both environments and what the
\* transaction reads are unchanged in every case.
C9_ReadOnlyFailsOnWrite ==
    [][(Called /\ ReadOnlyTxn /\ last'.op \in QuadWrites) =>
          LET c == IF last'.op = "add" THEN None
                   ELSE _normalize_context(last'.ctx)
              pattern == IF last'.op = "remove" THEN last'.trp
                         ELSE <<None, None, None>>
              unknown == c # None /\ _to_key(TxnView, <<c>>) = NoKey
              finds == /\ ~unknown
                       /\ _triple_keys(TxnView, pattern, c).keys # {}
              listed == /\ ~unknown
                        /\ _to_key(TxnView, <<c>>) \in TxnView.c
          IN  /\ UNCHANGED <<data_env, idx_env, data_txn, idx_txn>>
              /\ last'.op = "add" => last'.err = "ReadonlyError"
              /\ last'.op = "remove" =>
                     (last'.err = "ReadonlyError" <=> finds)
              /\ last'.op = "remove_graph" =>
                     (last'.err = "ReadonlyError" <=> (finds \/ listed))
      ]_vars

\* C10: triples(pattern, default graph) yields only triples stored in the
\* default graph.
C10_DefaultGraphOnly ==
    InTxn =>
        \A pattern \in AllPatterns :
            \A t \in triples(TxnView, pattern, RDFLIB_DEFAULT_GRAPH_URI).res :
                <<t, RDFLIB_DEFAULT_GRAPH_URI>> \in StoredQuads(TxnView)

\* A remove or remove_graph in a read-only transaction found an entry to
\* delete and raised lmdb.ReadonlyError, the quads being still stored.
C9_Witness ==
    /\ ReadOnlyTxn
    /\ last.op \in {"remove", "remove_graph"}
    /\ last.err = "ReadonlyError"
    /\ StoredQuads(TxnView) # {}
    /\ StoredQuads(EnvView) = StoredQuads(TxnView)

\* C11: remove((None, None, None)) without context removes triples from the
\* default graph only: what triples((None, None, None), g) yields for a named
\* graph g is the same after the call as before.
C11_RemoveSparesNamedGraphs ==
    [][(/\ Called /\ InTxn /\ last'.op = "remove"
        /\ last'.trp = <<None, None, None>> /\ last'.ctx = None) =>
          \A g \in GraphNames :
              triples(TxnView', <<None, None, None>>, g).res
                  = triples(TxnView, <<None, None, None>>, g).res
      ]_vars

\* C12: the two binding tables are mutual inverses, namespace(p) = n if and
\* only if prefix(n) = p, and right after bind(p, n) in a write transaction
\* namespace(p) = n and prefix(n) = p.
C12_BindingsInverse ==
    InTxn =>
        /\ \A pfx \in Prefixes, ns \in Namespaces :
               namespace(TxnView, pfx) = ns <=> prefix(TxnView, ns) = pfx
        /\ (last.op = "bind" /\ last.err = None /\ is_txn_rw = "True") =>
               /\ namespace(TxnView, last.trp[1]) = last.trp[2]
               /\ prefix(TxnView, last.trp[2]) = last.trp[1]

\* C13: when the commit of one of the two transactions fails, the logical
\* transaction is applied to neither environment and __exit__ raises.
C13_CommitFailureAbortsBoth ==
    [][(Exited /\ last'.op = "__exit__" /\ last'.trp # <<>>) =>
          /\ data_env' = data_env
          /\ idx_env' = idx_env
          /\ last'.err # None
      ]_vars

\* C14: with two threads on one store handle, a scope entered by a thread
\* while the write scope of another thread is active leaves that thread's
\* transaction in place, and a scope exit ends only a transaction that its own
\* thread began.
C14_ThreadsKeepTheirTxn ==
    [][/\ (/\ Entered
           /\ \E j \in 1..Len(scopes) :
                  /\ scopes[j].write
                  /\ scopes[j].thread # scopes'[Len(scopes')].thread) =>
              UNCHANGED <<data_txn, idx_txn, is_txn_rw>>
       /\ (/\ Exited
           /\ \E th \in Threads :
                  /\ Running(th)
                  /\ th # TxnOwner
                  /\ \A j \in 1..Len(scopes') : scopes'[j].thread # th) =>
              UNCHANGED <<data_env, idx_env, data_txn, idx_txn>>
      ]_vars

\* The tables v hold no part of a logical transaction without the rest: spo:c
\* and c:spo hold the same quads, every stored triple has its entries in
\* s:po, p:so and o:sp, and t:st and th:t hold the same terms.
Coherent(v) ==
    /\ \A e \in v.spoc : <<e[2], e[1]>> \in v.cspo
    /\ \A e \in v.cspo : <<e[2], e[1]>> \in v.spoc
    /\ \A e \in v.spoc : _index_triple(v, "add", e[1]) = v
    /\ \A e \in v.tst : <<_hash(e[2]), e[1]>> \in v.tht
    /\ \A e \in v.tht : \E d \in v.tst : d[1] = e[2] /\ _hash(d[2]) = e[1]

\* C15: the snapshots that a read transaction begun by another thread or
\* process takes of the two environments never hold a logical transaction
\* partially.
C15_NoPartialCommit == Coherent(EnvView)


\* C16: when an operation wrapped by atomic raises, the error propagates, the
\* store is as it was when the operation was called, and no change record
\* appended during the operation has been dispatched.
C16_RaiseRollsBack ==
    [][(req.stack # <<>> /\ (req.exc \/ Frame.pc = "body")
        /\ Len(req'.stack) < Len(req.stack)) =>
          IF req'.stack = <<>>
          THEN /\ req'.result = "raised"
               /\ req'.txn = {}
               /\ req'.store = req.entry.store
               /\ req'.sent = req.entry.sent
          ELSE req'.exc ]_vars

\* C17: a change record is dispatched at most once, and only when the change
\* it records has been committed to the store; also when revert_to_version
\* calls create_version.
C17_DispatchedOnceAfterCommit ==
    /\ \A j, k \in 1..Len(req.sent) : j # k => req.sent[j] # req.sent[k]
    /\ \A j \in 1..Len(req.sent) : req.sent[j] \in req.store

\* revert_to_version has called create_version, written changes of its own
\* and dispatched a record of them.
C17_Witness ==
    /\ req.stack # <<>>
    /\ Frame.op = "revert_to_version" /\ Frame.backup /\ Frame.pc = "dispatch"
    /\ Frame.i > 1

\* C18: once delete(uid) has left a tombstone, get(uid) fails with
\* TombstoneError (GONE); and resurrect(uid) on a tombstone makes get(uid)
\* succeed, the resource carrying the rdf:types and user triples it had when
\* it was deleted, no tombstone marker and no fcrepo:Version type.
C18_DeleteThenResurrect ==
    /\ [](repo.call.op = "delete" /\ repo.call.err = None =>
            get(repo.ds, repo.call.uid, TRUE, TRUE).err = "TombstoneError")
    /\ [][\A uid \in Uids :
            (/\ IsTombstone(repo.ds, uid)
             /\ repo'.call # repo.call
             /\ repo'.call.op = "resurrect" /\ repo'.call.uid = uid) =>
               /\ repo'.call.err = None
               /\ get(repo'.ds, uid, TRUE, TRUE).err = None
               /\ {t \in repo.prior[uid] : t[2] \in {"rdf:type", "dc:title"}}
                     \subseteq Rsrc(repo'.ds, uid)
               /\ ~IsTombstone(repo'.ds, uid)
               /\ <<uid, "rdf:type", "fcrepo:Version">> \notin repo'.ds ]_vars

\* A uid is LIVE: it has triples and is no tombstone.
Live(ds, uid) == ask_rsrc_exists(ds, uid) /\ ~IsTombstone(ds, uid)

C20_PurgeFreesUid ==
    [][\A uid \in Uids :
         (/\ IsTombstone(repo.ds, uid)
          /\ repo'.call # repo.call
          /\ repo'.call.op = "purge" /\ repo'.call.uid = uid) =>
            /\ repo'.call.err = None
            /\ Rsrc(repo'.ds, uid) = {}
            /\ \A v \in VerUris(uid) : Rsrc(repo'.ds, v) = {}
            /\ \A title \in Titles :
                 /\ post(repo'.ds, uid, provided_imr(uid, title), Now,
                         None).ret = "_create_"
                 /\ put(repo'.ds, uid, provided_imr(uid, title), Now,
                        None).ret = "_create_" ]_vars

\* C30: the first term key allocated in an empty store is the start byte
\* repeated over the key length (2 2 2 2 2).
C30_FirstKeyIsStart ==
    [][(TxnView.tst = {} /\ TxnView'.tst # {}) =>
          \E e \in TxnView'.tst : e[1] = first ]_vars

\* The objects of the triples of uid with predicate p.
Values(ds, uid, p) == {t[3] : t \in {m \in Rsrc(ds, uid) : m[2] = p}}
\* The clock reading a timestamp stands for.
StampTime(ts) == CHOOSE n \in 0..MaxTime : Stamp(n) = ts

\* C21: a put or a revert that succeeds on an existing resource leaves its
\* fcrepo:created and fcrepo:createdBy as they were and sets
\* fcrepo:lastModified to the time of the request, which is not before
\* fcrepo:created.
C21_CreatedKept ==
    [][\A uid \in Uids :
         (/\ Live(repo.ds, uid)
          /\ repo' # repo /\ repo'.now = repo.now
          /\ repo'.call.op \in {"put", "revert_to_version"}
          /\ repo'.call.uid = uid /\ repo'.call.err = None) =>
            /\ Values(repo'.ds, uid, "fcrepo:created")
                 = Values(repo.ds, uid, "fcrepo:created")
            /\ Values(repo'.ds, uid, "fcrepo:createdBy")
                 = Values(repo.ds, uid, "fcrepo:createdBy")
            /\ Values(repo'.ds, uid, "fcrepo:lastModified") = {Now}
            /\ \A c \in Values(repo'.ds, uid, "fcrepo:created") :
                 StampTime(c) <= repo.now ]_vars

\* A resource was reverted to a version later than it was created.
C21_Witness ==
    /\ repo.call.op = "revert_to_version" /\ repo.call.err = None
    /\ Values(repo.ds, repo.call.uid, "fcrepo:created") = {Stamp(0)}
    /\ Values(repo.ds, repo.call.uid, "fcrepo:lastModified") = {Stamp(MaxTime)}

\* A server-managed triple: of a server-managed predicate or type.
SrvMgd(t) ==
    \/ t[2] \in srv_mgd_predicates
    \/ t[2] = "rdf:type" /\ t[3] \in srv_mgd_types
\* A get of the resource last put, without the server-managed triples.
GotUserGraph ==
    /\ repo.call.op = "get" /\ repo.call.err = None
    /\ repo.call.uid = repo.sent.uid
    /\ ~repo.got.incl_srv_mgd

\* C22: after put(uid, G), a get of uid with incl_srv_mgd false returns
\* exactly the triples of G that are not server-managed, the rdf:type
\* triples of a type that is not server-managed among them.
C22_GetReturnsUserTriples ==
    GotUserGraph => repo.got.gr = {t \in repo.sent.gr : ~SrvMgd(t)}

\* The part of C22 the code does keep: no server-managed triple is returned.
C22_NoSrvMgdReturned ==
    GotUserGraph => \A t \in repo.got.gr : ~SrvMgd(t)

\* The step creates the resource uid: a post or put that succeeds on a uid
\* that had no triples.
Creates(uid) ==
    /\ repo'.call.op \in {"post", "put"} /\ repo'.call.uid = uid
    /\ repo'.call.err = None /\ repo'.ds # repo.ds
    /\ ~ask_rsrc_exists(repo.ds, uid)
\* The uid one path segment up, the root for a uid without '/'.
PathParent(uid) ==
    IF Ancestors(uid) = <<>> THEN ROOT_UID ELSE Ancestors(uid)[1]

\* C23: a resource created under an existing parent is contained in it
\* (parent ldp:contains child, child fcrepo:hasParent parent), the parent of
\* a uid without '/' being the root; a get of a resource with its children
\* returns its ldp:contains triples.
C23_ContainedInParent ==
    /\ [][\A uid \in PathUids :
            (Creates(uid) /\ Live(repo.ds, PathParent(uid))) =>
               /\ <<PathParent(uid), "ldp:contains", uid>> \in repo'.ds
               /\ <<uid, "fcrepo:hasParent", PathParent(uid)>> \in repo'.ds
               /\ <<PathParent(uid), "ldp:contains", uid>>
                    \in get(repo'.ds, PathParent(uid), TRUE, TRUE).ret ]_vars
    /\ [](( /\ repo.call.op = "get" /\ repo.call.err = None
            /\ repo.got.incl_children /\ repo.got.incl_srv_mgd) =>
             {t \in Rsrc(repo.ds, repo.call.uid) : t[2] = "ldp:contains"}
                \subseteq repo.got.gr)

\* The container a was read with its children after a/b was created in it.
C23_Witness ==
    /\ repo.call.op = "get" /\ repo.call.uid = "a" /\ repo.call.err = None
    /\ repo.got.incl_children
    /\ <<"a", "ldp:contains", "a/b">> \in repo.got.gr
    /\ <<"a/b", "fcrepo:hasParent", "a">> \in repo.ds
    /\ <<ROOT_UID, "ldp:contains", "a">> \in repo.ds

\* The path ancestors of uid that are missing below the deepest one that
\* exists, as indices of Ancestors(uid); and the deepest one that exists.
MissingSegments(ds, uid) ==
    {i \in 1..Len(Ancestors(uid)) :
       \A j \in 1..i : ~ask_rsrc_exists(ds, Ancestors(uid)[j])}
DeepestAncestor(ds, uid) ==
    IF Cardinality(MissingSegments(ds, uid)) = Len(Ancestors(uid))
    THEN ROOT_UID
    ELSE Ancestors(uid)[Cardinality(MissingSegments(ds, uid)) + 1]

\* C24: when a resource is created below missing path segments, the deepest
\* ancestor that exists, or the root, becomes its parent; every missing
\* segment becomes a pairtree node (ldp:Container, ldp:BasicContainer,
\* ldp:RDFSource, fcrepo:Pairtree) that ldp:contains the new resource and
\* has that parent; the ancestors above the parent are not modified.
C24_PairtreeSegments ==
    [][\A uid \in PathUids :
         (Creates(uid) /\ Ancestors(uid) # <<>>) =>
            LET parent == DeepestAncestor(repo.ds, uid)
                missing == MissingSegments(repo.ds, uid)
            IN  /\ <<parent, "ldp:contains", uid>> \in repo'.ds
                /\ <<uid, "fcrepo:hasParent", parent>> \in repo'.ds
                /\ \A i \in missing :
                     LET seg == Ancestors(uid)[i]
                     IN  {<<seg, "rdf:type", "ldp:Container">>,
                          <<seg, "rdf:type", "ldp:BasicContainer">>,
                          <<seg, "rdf:type", "ldp:RDFSource">>,
                          <<seg, "rdf:type", "fcrepo:Pairtree">>,
                          <<seg, "ldp:contains", uid>>,
                          <<seg, "fcrepo:hasParent", parent>>}
                            \subseteq repo'.ds
                /\ \A i \in 1..Len(Ancestors(uid)) :
                     (i \notin missing /\ Ancestors(uid)[i] # parent) =>
                        Rsrc(repo'.ds, Ancestors(uid)[i])
                          = Rsrc(repo.ds, Ancestors(uid)[i]) ]_vars

\* a/b/c was created when neither a/b nor a existed: both are pairtree nodes
\* under the root.
C24_Witness ==
    /\ repo.call.uid = "a/b/c" /\ repo.call.err = None
    /\ repo.call.ret = "_create_"
    /\ <<"a/b/c", "fcrepo:hasParent", ROOT_UID>> \in repo.ds
    /\ <<"a/b", "rdf:type", "fcrepo:Pairtree">> \in repo.ds
    /\ <<"a", "rdf:type", "fcrepo:Pairtree">> \in repo.ds

\* The parent is a direct container with a membership resource and a member
\* relation; it is no direct or indirect container or lacks one of the two.
IsDirect(ds, uid) ==
    /\ <<uid, "rdf:type", "ldp:DirectContainer">> \in ds
    /\ Values(ds, uid, "ldp:membershipResource") # {}
    /\ Values(ds, uid, "ldp:hasMemberRelation") # {}
NoMembership(ds, uid) ==
    \/ Values(ds, uid, "ldp:membershipResource") = {}
    \/ Values(ds, uid, "ldp:hasMemberRelation") = {}
    \/ /\ <<uid, "rdf:type", "ldp:DirectContainer">> \notin ds
       /\ <<uid, "rdf:type", "ldp:IndirectContainer">> \notin ds

\* C25: a resource created in a direct container that has a membership
\* resource M and a member relation R adds (M, R, resource); created in a
\* parent that lacks one of the two, or is neither a direct nor an indirect
\* container, it adds no membership triple.
C25_DirectMembership ==
    [][\A uid \in PathUids :
         Creates(uid) =>
            LET parent == DeepestAncestor(repo.ds, uid)
            IN  /\ IsDirect(repo.ds, parent) =>
                     \A m \in Values(repo.ds, parent, "ldp:membershipResource"),
                        r \in Values(repo.ds, parent, "ldp:hasMemberRelation") :
                          <<m, r, uid>> \in repo'.ds
                /\ NoMembership(repo.ds, parent) =>
                     \A t \in repo'.ds \ repo.ds :
                        (t[3] = uid \/ t[1] = "b") =>
                           t[2] \in {"ldp:contains", "fcsystem:contains"} ]_vars

\* a/b is a member of b through the direct container a.
C25_Witness ==
    /\ <<"a", "rdf:type", "ldp:DirectContainer">> \in repo.ds
    /\ <<"a/b", "fcrepo:hasParent", "a">> \in repo.ds
    /\ <<"b", "ex:member", "a/b">> \in repo.ds

\* C26: the snapshot that create_version writes holds no fcrepo:hasParent,
\* fcrepo:hasVersion, fcrepo:hasVersions or premis:hasMessageDigest triple,
\* however many versions were created before.
C26_SnapshotHasNoAdminTriples ==
    [][(/\ repo'.call.op = "create_version" /\ repo'.call.err = None
        /\ repo'.nver = repo.nver + 1) =>
          \A t \in Rsrc(repo'.ds, VerUri(repo'.call.uid, repo'.nver)) :
             t[2] \notin {"fcrepo:hasParent", "fcrepo:hasVersion",
                          "fcrepo:hasVersions", "premis:hasMessageDigest"} ]_vars

\* What the snapshot does leave out: the parent, the versions container and
\* the digest.
C26_SnapshotLeavesOut ==
    [][(/\ repo'.call.op = "create_version" /\ repo'.call.err = None
        /\ repo'.nver = repo.nver + 1) =>
          \A t \in Rsrc(repo'.ds, VerUri(repo'.call.uid, repo'.nver)) :
             t[2] \notin {"fcrepo:hasParent", "fcrepo:hasVersions",
                          "premis:hasMessageDigest"} ]_vars

\* C27: a create_version that succeeds with messaging enabled emits an event
\* for the source resource: when its wrapper returns to the request, records
\* of the changes it wrote have been dispatched.
C27_CreateVersionEmitsEvent ==
    [][(/\ Len(req.stack) = 1 /\ Frame.op = "create_version"
        /\ Frame.wrote /\ req.messaging
        /\ req'.stack = <<>> /\ req'.result = "returned") =>
          Len(req'.sent) > Len(req.entry.sent) ]_vars

\* The user-managed part of a graph: predicates and objects of the triples
\* that are not server-managed.
UserPart(gr) == {<<t[2], t[3]>> : t \in {m \in gr : ~SrvMgd(m)}}

\* C28: after create_version(uid, v), any number of puts and a
\* revert_to_version(uid, v), get(uid) returns the user-managed triples and
\* types the resource had at v: the snapshot takes them from the resource,
\* no later request changes a snapshot, and the revert gives them back.
C28_RevertRestores ==
    /\ [][(LdprCreateVersion("a") /\ repo'.call.err = None) =>
            UserPart(Rsrc(repo'.ds, VerUri("a", repo'.nver)))
              = UserPart(get(repo.ds, "a", TRUE, TRUE).ret) ]_vars
    /\ [][\A v \in 1..repo.nver :
            Rsrc(repo'.ds, VerUri("a", v)) = Rsrc(repo.ds, VerUri("a", v)) ]_vars
    /\ [][\A v \in 1..repo.nver, backup \in BOOLEAN :
            (LdprRevert("a", v, backup) /\ repo'.call.err = None) =>
               UserPart(get(repo'.ds, "a", TRUE, TRUE).ret)
                 = UserPart(Rsrc(repo.ds, VerUri("a", v))) ]_vars

\* The resource was versioned with a user type, put without it, and
\* reverted: it has the type again.
C28_Witness ==
    /\ repo.call.op = "revert_to_version" /\ repo.call.err = None
    /\ <<"a", "rdf:type", "ex:Doc">> \notin repo.sent.gr
    /\ <<"a", "dc:title", "y">> \in repo.sent.gr
    /\ <<"a", "rdf:type", "ex:Doc">> \in repo.ds
    /\ <<"a", "dc:title", "x">> \in repo.ds

\* The objects of a payload inside the webroot that are no stored resource.
Dangling(ds, gr) == {o \in {t[3] : t \in gr} \cap RepoIris : Rsrc(ds, o) = {}}

\* C29: a put whose payload links to an IRI of the repository that is no
\* stored resource fails with RefIntViolationError and writes nothing if the
\* setting is strict; under any other setting that is enabled it succeeds,
\* and the resource is stored without the triples that have that object.
C29_RefIntOnPut ==
    [][\A uid \in Uids, config \in RefIntSettings \ {None} :
         \A gr \in LinkPayloads(uid) :
            (LdprPutGraph(uid, gr, config) /\ Dangling(repo.ds, gr) # {}) =>
               IF config = "strict"
               THEN /\ repo'.call.err = "RefIntViolationError"
                    /\ repo'.ds = repo.ds
               ELSE /\ repo'.call.err = None
                    /\ \A t \in Rsrc(repo'.ds, uid) :
                         t[3] \notin Dangling(repo.ds, gr)
                    /\ {t \in gr : t[3] \notin Dangling(repo.ds, gr)}
                         \subseteq repo'.ds ]_vars

\* b was put with a link to a, which does not exist, and stored without it.
C29_Witness ==
    /\ repo.call.op = "put" /\ repo.call.uid = "b" /\ repo.call.err = None
    /\ <<"b", "ex:ref", "a">> \in repo.sent.gr
    /\ <<"b", "ex:ref", "ex:thing">> \in repo.ds
    /\ <<"b", "ex:ref", "a">> \notin repo.ds
    /\ Rsrc(repo.ds, "a") = {}

\* The last position of key n that can be incremented: 0 if there is none.
LastBelowMax(n) ==
    IF \A i \in 1..KEY_LENGTH : n[i] = BYTE_MAX THEN 0
    ELSE CHOOSE j \in 1..KEY_LENGTH :
           /\ n[j] < BYTE_MAX
           /\ \A i \in (j + 1)..KEY_LENGTH : n[i] = BYTE_MAX

\* C31: for a key n of the declared length with no byte below start, next(n)
\* has the same length, is greater than n in byte order, has no byte below
\* start, and is n with its last byte incremented, a byte at 255 being reset
\* to start with a carry to the position before; when the carry passes the
\* first position next raises instead of returning a key.
C31_NextIncrements ==
    seq.calls > 0 =>
       LET n == seq.n
           j == LastBelowMax(n)
       IN  IF j = 0 THEN seq.err = "RuntimeError"
           ELSE /\ seq.err = None
                /\ Len(seq.out) = KEY_LENGTH
                /\ LexLess(n, seq.out)
                /\ \A i \in 1..KEY_LENGTH : seq.out[i] >= KEY_START
                /\ \A i \in 1..KEY_LENGTH : seq.out[i] # SEP_BYTE
                /\ seq.out[j] = n[j] + 1
                /\ \A i \in 1..(j - 1) : seq.out[i] = n[i]
                /\ \A i \in (j + 1)..KEY_LENGTH : seq.out[i] = KEY_START

\* A carry over two positions, and the exhausted sequence.
C31_Witness ==
    /\ seq.calls = 2
    /\ seq.n = <<KEY_START, KEY_START, BYTE_MAX - 1, BYTE_MAX, BYTE_MAX>>
    /\ seq.out = <<KEY_START, KEY_START, BYTE_MAX, KEY_START, KEY_START>>

\* The last call was add_graph, made in the write transaction that is still
\* open, and it returned.
AddedGraph ==
    /\ scopes # <<>> /\ is_txn_rw = "True" /\ CursorError = None
    /\ last.op = "add_graph" /\ last.err = None

\* C32: after add_graph(c) in a write transaction c is among contexts(),
\* whether or not c holds a triple and whether or not the term c had been
\* interned before.
C32_AddGraphListed ==
    AddedGraph => GraphOf(last.ctx) \in contexts(TxnView, <<>>).res

\* The part of C32 the code keeps: a graph whose term was not interned when
\* add_graph was called is listed.
C32_NewTermListed ==
    [][(AddedGraph' /\ last' # last
        /\ ~HasKey(TxnView.tht, _hash(_pickle(GraphOf(last'.ctx))))) =>
          GraphOf(last'.ctx) \in contexts(TxnView', <<>>).res ]_vars

\* The step is a call op of the store that returned.
Returned(op) ==
    /\ nops' = nops + 1 /\ last'.op = op /\ last'.err = None
    /\ scopes # <<>> /\ CursorError = None

Interned(v, t) == HasKey(v.tht, _hash(_pickle(t)))
\* A bound term of the pattern, or the context, was never interned.
HasUnknownTerm(v, pattern, ctx) ==
    \/ \E j \in 1..3 : pattern[j] # None /\ ~Interned(v, pattern[j])
    \/ ctx # None /\ ~Interned(v, ctx)

\* C34: when a bound term of the pattern, or the context, was never
\* interned, triples(pattern, ctx) yields nothing and does not raise,
\* whether one, two or three terms are bound, with or without a context.
C34_UnknownTermYieldsNothing ==
    InTxn =>
        \A pattern \in AllPatterns, ctx \in {None} \cup GraphNames :
            HasUnknownTerm(TxnView, pattern, ctx) =>
                triples(TxnView, pattern, ctx) = [err |-> None, res |-> {}]

\* The part of C34 the code keeps: patterns of terms that are true in
\* Python, with a context or with at most two terms bound.
C34_ExceptFullyBound ==
    InTxn =>
        \A pattern \in AllPatterns, ctx \in {None} \cup GraphNames :
            (/\ HasUnknownTerm(TxnView, pattern, ctx)
             /\ \A j \in 1..3 : pattern[j] \notin FalsyTerms
             /\ ctx # None \/ \E j \in 1..3 : pattern[j] = None) =>
                triples(TxnView, pattern, ctx) = [err |-> None, res |-> {}]

\* The entries of s:po, p:so and o:sp that cover the triple key spok.
LookupEntries(spok) ==
    LET k == split(spok)
    IN  [spo |-> <<k[1], join(<<k[2], k[3]>>)>>,
         pso |-> <<k[2], join(<<k[1], k[3]>>)>>,
         osp |-> <<k[3], join(<<k[1], k[2]>>)>>]
Indexed(v, spok) ==
    /\ LookupEntries(spok).spo \in v.spo
    /\ LookupEntries(spok).pso \in v.pso
    /\ LookupEntries(spok).osp \in v.osp

\* C35: every triple key that has a context in spo:c is covered by its entry
\* in each of s:po, p:so and o:sp; a lookup entry is removed only when no
\* context references the triple any more.
C35_LookupsCoverStoredTriples ==
    InTxn => \A e \in TxnView.spoc : Indexed(TxnView, e[1])

\* The part of C35 that holds in a store where triples are only added.
C35_LookupsAfterAdd ==
    InTxn => \A e \in TxnView.spoc : Indexed(TxnView, e[1])

OneKeyPerTerm(v) ==
    /\ \A e1, e2 \in v.tst : e1[2] = e2[2] => e1[1] = e2[1]
    /\ \A e \in v.tst : Get(v.tht, _hash(e[2])) = e[1]

\* C37: after any adds and add_graphs, in a write transaction or through the
\* writer add_graph opens while a read-only transaction is active, every
\* term has exactly one term key: interning a term that is known allocates
\* no key.
C37_OneKeyPerTerm ==
    OneKeyPerTerm(EnvView) /\ (InTxn => OneKeyPerTerm(TxnView))

\* The part of C37 that holds in write transactions.
C37_OneKeyInWriteTxn ==
    InTxn => OneKeyPerTerm(TxnView)

\* The resources below uid that a dataset holds and that are no pairtree
\* nodes and no tombstones.
Descendants(ds, uid) ==
    {d \in PathUids :
       /\ \E i \in 1..Len(Ancestors(d)) : Ancestors(d)[i] = uid
       /\ Live(ds, d)
       /\ <<d, "rdf:type", "fcrepo:Pairtree">> \notin ds}
\* delete(uid) with delete_children and leave_tstone has just returned.
DeletesTree(uid) ==
    /\ repo'.call # repo.call
    /\ repo'.call.op = "delete" /\ repo'.call.uid = uid
    /\ repo'.call.err = None

\* C38: after delete(uid) with delete_children and leave_tstone, every
\* descendant of uid carries an fcsystem:tombstone pointer to uid, and a
\* get of the descendant fails with TombstoneError (GONE) as a get of uid
\* does.
C38_DescendantsGone ==
    [][\A uid \in PathUids :
         DeletesTree(uid) =>
           /\ get(repo'.ds, uid, TRUE, TRUE).err = "TombstoneError"
           /\ \A d \in Descendants(repo.ds, uid) :
                 /\ <<d, "fcsystem:tombstone", uid>> \in repo'.ds
                 /\ get(repo'.ds, d, TRUE, TRUE).err = "TombstoneError" ]_vars

\* The part of C38 that holds: the resource is a tombstone, and the
\* resources its own ldp:contains triples name carry the pointer and are in
\* the place of no resource any more.
C38_ChildrenBuried ==
    [][\A uid \in PathUids :
         DeletesTree(uid) =>
           /\ get(repo'.ds, uid, TRUE, TRUE).err = "TombstoneError"
           /\ \A d \in PathUids :
                 <<uid, "ldp:contains", d>> \in repo.ds =>
                    /\ <<d, "fcsystem:tombstone", uid>> \in repo'.ds
                    /\ IsTombstone(repo'.ds, d)
                    /\ get(repo'.ds, d, TRUE, TRUE).err # None ]_vars

\* The pointer is what the claim expects, the get is not: a child was
\* buried with its parent.
C38_PointerNotGone ==
    /\ repo.call.op = "delete" /\ repo.call.err = None
    /\ \E d \in PathUids :
          /\ <<d, "fcsystem:tombstone", repo.call.uid>> \in repo.ds
          /\ get(repo.ds, d, TRUE, TRUE).err = "NameError"
\* A resource two levels below the deleted one is left as it was.
C38_GrandchildLeft ==
    /\ repo.call.op = "delete" /\ repo.call.err = None /\ repo.call.uid = "a"
    /\ IsTombstone(repo.ds, "a/b")
    /\ Live(repo.ds, "a/b/c")

\* C39: revert_to_version(uid, v, backup=true) is atomic as a whole: when it
\* fails after the backup step, for instance because version v does not
\* exist, the backup version and the hasVersion and hasVersions triples are
\* not persisted and the dataset is as before the call.
C39_RevertAtomic ==
    [][\A v \in 1..MaxVersions :
         (LdprRevert("a", v, TRUE) /\ repo'.call.err # None) =>
            repo'.ds = repo.ds ]_vars

\* The part of C39 that holds: a revert that fails without a backup, or
\* whose backup step fails, changes nothing.
C39_FailedBeforeBackupKeeps ==
    [][\A v \in 1..MaxVersions, backup \in BOOLEAN :
         (/\ LdprRevert("a", v, backup)
          /\ repo'.call.err # None
          /\ ~backup \/ create_version(repo.ds, "a", repo.nver + 1).err # None)
            => repo'.ds = repo.ds ]_vars

\* A revert to a version that does not exist has failed and left its backup.
C39_BackupLeft ==
    /\ repo.call.op = "revert_to_version"
    /\ repo.call.err = "ResourceNotExistsError"
    /\ \E n \in 1..MaxVersions :
          /\ <<"a", "fcrepo:hasVersion", VerUri("a", n)>> \in repo.ds
          /\ repo.nver = n
          /\ get_version_info(repo.ds, "a") = {n}

\* The fcsystem:contains triples of ds lead from parent through the n
\* deepest path ancestors of uid, topmost first, down to uid.
ContainsChain(ds, parent, uid, n) ==
    LET anc == Ancestors(uid)
    IN  /\ <<parent, "fcsystem:contains", anc[n]>> \in ds
        /\ \A i \in 2..n : <<anc[i], "fcsystem:contains", anc[i - 1]>> \in ds
        /\ <<anc[1], "fcsystem:contains", uid>> \in ds

\* C40: after a resource is created below missing path segments, the
\* fcsystem:contains triples form an unbroken chain from the parent chosen
\* (the deepest ancestor that exists, or the root) through every pairtree
\* node created down to the new resource, whichever ancestor was the
\* deepest one.
C40_ContainsChainUnbroken ==
    [][\A uid \in PathUids :
         (Creates(uid) /\ MissingSegments(repo.ds, uid) # {}) =>
            ContainsChain(repo'.ds, DeepestAncestor(repo.ds, uid), uid,
                          Cardinality(MissingSegments(repo.ds, uid))) ]_vars

\* The part of C40 that holds: the chain is unbroken when no ancestor
\* exists and the root is the parent, and below the topmost pairtree node
\* in every case.
C40_ChainFromRoot ==
    [][\A uid \in PathUids :
         (Creates(uid) /\ MissingSegments(repo.ds, uid) # {}) =>
            LET n == Cardinality(MissingSegments(repo.ds, uid))
                anc == Ancestors(uid)
            IN  /\ DeepestAncestor(repo.ds, uid) = ROOT_UID =>
                      ContainsChain(repo'.ds, ROOT_UID, uid, n)
                /\ \A i \in 2..n :
                      <<anc[i], "fcsystem:contains", anc[i - 1]>> \in repo'.ds
                /\ <<anc[1], "fcsystem:contains", uid>> \in repo'.ds ]_vars

\* a/b/c was created under the existing a: the pairtree node a/b contains
\* it, and nothing contains a/b.
C40_ChainBroken ==
    /\ repo.call.op = "put" /\ repo.call.uid = "a/b/c"
    /\ repo.call.err = None
    /\ <<"a/b", "rdf:type", "fcrepo:Pairtree">> \in repo.ds
    /\ <<"a/b", "fcrepo:hasParent", "a">> \in repo.ds
    /\ <<"a/b", "fcsystem:contains", "a/b/c">> \in repo.ds
    /\ \A t \in repo.ds : ~(t[2] = "fcsystem:contains" /\ t[3] = "a/b")
====
